---- MODULE Spec2Model ----
(***************************************************************************)
(* Verification model of the alpha-pulse acquisition pipeline:             *)
(*   - tools/edgar/rate_limiter.py   RateLimiter (singleton, wait)         *)
(*   - storage/base_db_client.py     filter_out_existing_primary_keys,     *)
(*                                   insert_records                        *)
(*   - storage/publishers/publish_parsed_801.py                            *)
(*   - clients/edgar/utils.py        clean_text,                           *)
(*                                   clean_and_extract_normalized_sections *)
(*   - clients/edgar/edgar_client.py grab_recent_filings, parse_filings    *)
(*                                                                         *)
(* Time is counted in ticks of 0.04 s, the largest unit in which both      *)
(* SEC_RATE_LIMIT (0.12 s) and SEC_BURST_WINDOW (1.0 s) are whole numbers. *)
(***************************************************************************)
EXTENDS Integers, Sequences, FiniteSets, TLC

(* ------------------------------------------------------------------ *)
(* Bounds of the model                                                 *)
(* ------------------------------------------------------------------ *)
MaxTime == 27
MaxTimeHandles == 26
MaxLocks == 2
MaxFeed == 2
MaxFilterCalls == 2
MaxKeys == 2
MaxPublish == 5
MaxTokens == 6
MaxRounds == 2
MaxSections == 2
MaxAnalyzeCalls == 3
MaxRequests == 3
MaxRetries == 2
MaxConnects == 2
MaxGrabs == 2
MaxEntries == 2
MaxBatch == 2
MaxFilings == 3
MaxEdgarTime == 22
MaxWaits == 9
MaxRecursion == 3
MaxTokenTime == 14
MaxTokenCalls == 4

(* ------------------------------------------------------------------ *)
(* Program constants (rate_limiter.py:16-18), in ticks of 0.04 s       *)
(* ------------------------------------------------------------------ *)
SEC_RATE_LIMIT == 3
SEC_BURST_LIMIT == 8
SEC_BURST_WINDOW == 25

Callers == {"t1", "t2"}

VARIABLES
    clock,              \* time.time()
    last_request_time,  \* RateLimiter.last_request_time
    request_times,      \* RateLimiter.request_times
    async_lock,         \* identity of the asyncio.Lock in RateLimiter._async_lock
    held,               \* set of lock identities that are currently locked
    waiters,            \* callers blocked in `async with`, in arrival order
    pc,                 \* position of each caller inside wait()
    my_lock,            \* the lock object each caller entered `async with` on
    wake,               \* time at which a caller's asyncio.sleep is over
    recorded            \* history: every timestamp appended by wait(), in order

limiterVars == <<clock, last_request_time, request_times, async_lock, held,
                 waiters, pc, my_lock, wake, recorded>>

VARIABLES
    filed_8k_listing,   \* rows of table filed_8k_listing (primary key base_url)
    f_calls,            \* history: filter calls made since the table last changed
    g_pc,               \* position of each grab_recent_filings run
    g_new,              \* new_filings of each run
    g_ins,              \* history: base_url of the records the run handed to insert_records
    g_raised            \* whether the run ended in an exception

storeVars == <<filed_8k_listing, f_calls, g_pc, g_new, g_ins, g_raised>>

VARIABLES
    analyzed_item801,   \* rows of table analyzed_item801 (no key constraint)
    pub_last,           \* history: content of the last record published per key
    pub_count           \* history: number of publish_parsed_801 calls

publishVars == <<analyzed_item801, pub_last, pub_count>>

VARIABLES
    doc,                \* the document handed to the section extractor
    sections,           \* the map clean_and_extract_normalized_sections returned
    x_pc                \* "input" before the call, "extracted" after it

extractVars == <<doc, sections, x_pc>>

VARIABLES
    parsed_8k_text,     \* table parsed_8k_text: rows [base_url, item_number, item_text]
    p_last,             \* what the last round of parse_filings did
    p_rounds            \* number of rounds of parse_filings so far

pipelineVars == <<parsed_8k_text, p_last, p_rounds>>

VARIABLES
    set_created,        \* SharedSingletonSet._instance is not None
    exhibit_set,        \* SharedSingletonSet._instance._set
    parsed_ex99_text,   \* table parsed_ex99_text: rows [cik, ex99_id, ex99_url]
    analyzed_ex99_text, \* table analyzed_ex99_text: rows [cik, ex99_id, ex99_url]
    ex_pc,              \* position of each ExhibitAnalyzer.analyze call
    ex_tasks,           \* the download tasks each call has started
    ex_started,         \* number of download tasks started so far, per URL
    ex_carried,         \* whether some call was given several sections carrying the URL
    ex_calls            \* number of analyze calls so far

exhibitVars == <<set_created, exhibit_set, parsed_ex99_text, analyzed_ex99_text, ex_pc, ex_tasks, ex_started,
                ex_carried, ex_calls>>

VARIABLES
    r_env,              \* the feed page and the collaborators' answers of both runs
    r_pre,              \* the listing keys stored before the first run
    r_run,              \* the run of the pipeline in progress (1 or 2)
    r_pc,               \* "grab", "parse" or "ended"
    r_error,            \* per run: the run ended in an exception
    r_snap              \* the keys of the tables at the end of the first run

rerunVars == <<r_env, r_pre, r_run, r_pc, r_error, r_snap>>

\* calls of SECClient._make_request / _make_json_request: the position of
\* each call, its arguments, the number of times it has awaited
\* RateLimiter.wait and called session.get, and how it ended
VARIABLES rq_pc, rq_kind, rq_raise_for_status, rq_waits, rq_gets, rq_result, rq_calls

requestVars == <<rq_pc, rq_kind, rq_raise_for_status, rq_waits, rq_gets, rq_result, rq_calls>>

\* DuckDBClient: whether a client exists and holds a connection, the
\* position of connect, its loop counter, the outcomes of the
\* duckdb.connect calls of the current connect and the sleeps between them
VARIABLES c_pc, c_conn, c_retries, c_retry_delay, c_attempt, c_history, c_slept, c_calls

connectVars == <<c_pc, c_conn, c_retries, c_retry_delay, c_attempt, c_history, c_slept, c_calls>>

\* a top-level call of grab_recent_filings and its recursion: its position,
\* its arguments, the offset of the current level, the offsets requested so
\* far and the number of requested pages that listed no unseen entry
VARIABLES pg_pc, pg_limit, pg_stop_early, pg_start, pg_requested, pg_empty_pages, pg_calls

pageVars == <<pg_pc, pg_limit, pg_stop_early, pg_start, pg_requested, pg_empty_pages, pg_calls>>

\* parse_atom_latest_filings_feed: the <entry> elements of the response, the
\* position of the call, the list it returns and whether it raised
VARIABLES a_feed, a_pc, a_result, a_raised

atomVars == <<a_feed, a_pc, a_result, a_raised>>

\* FilingParser.parse and the insert loop on an ordered batch: the batch, the
\* list parse returned for it, the parsed_8k_text rows keyed by
\* (cik, filing_date, item_number), and the number of batches handled
VARIABLES b_batch, b_parsed, b_table, b_rounds

batchVars == <<b_batch, b_parsed, b_table, b_rounds>>

\* the agent workflow: state.filingEntries (which inputs each entry has), the
\* node the graph is at, and for each entry the index of the entry from
\* whose data its parsed_8k, parsed_ex99 and analysis were computed (0: none)
VARIABLES w_entries, w_pc, w_parsed_8k, w_parsed_ex99, w_analysis

workflowVars == <<w_entries, w_pc, w_parsed_8k, w_parsed_ex99, w_analysis>>

\* the RateLimiter of tools/edgar.py (no lock): time.time(), its two fields,
\* the position of each caller in wait(), the local `now` of each caller,
\* the end of its asyncio.sleep, and the history of appended timestamps
VARIABLES e_clock, e_last_request_time, e_request_times, e_pc, e_now, e_wake, e_recorded

edgarVars == <<e_clock, e_last_request_time, e_request_times, e_pc, e_now, e_wake, e_recorded>>

\* one call of parse_filings with its recursion: its position and the number
\* of unprocessed listings each of its rounds started with
VARIABLES rc_pc, rc_history

recursionVars == <<rc_pc, rc_history>>

\* publish_parsed_502 for one (cik, filing_date): the rows of the three tables
\* for that pair (each row named by the write it came from), the position
\* of each insert() thread, what its SELECT returned and which role lists
\* its summary carries
VARIABLES m_summary, m_appointment, m_removal, m_pc, m_existing_cik, m_roles

publish502Vars == <<m_summary, m_appointment, m_removal, m_pc, m_existing_cik, m_roles>>

\* openai_limiter: the module globals _current_tokens, _reset_time and
\* _token_lock (the callers inside `async with`), the clock, and for each
\* caller its position, its tokens_needed and the end of its sleep;
\* tb_calls and tb_slept count the calls made and the sleeps completed
VARIABLES current_tokens, reset_time, token_lock, token_clock, tb_pc, tb_needed, tb_wake, tb_calls, tb_slept

tokenVars == <<current_tokens, reset_time, token_lock, token_clock, tb_pc, tb_needed, tb_wake, tb_calls, tb_slept>>

vars == <<limiterVars, storeVars, publishVars, extractVars, pipelineVars, exhibitVars, rerunVars, requestVars, connectVars, pageVars, atomVars, batchVars, workflowVars, edgarVars, recursionVars, publish502Vars, tokenVars>>

notLimiterVars == <<storeVars, publishVars, extractVars, pipelineVars, exhibitVars, rerunVars, requestVars, connectVars, pageVars, atomVars, batchVars, workflowVars, edgarVars, recursionVars, publish502Vars, tokenVars>>
notStoreVars == <<limiterVars, publishVars, extractVars, pipelineVars, exhibitVars, rerunVars, requestVars, connectVars, pageVars, atomVars, batchVars, workflowVars, edgarVars, recursionVars, publish502Vars, tokenVars>>
notPublishVars == <<limiterVars, storeVars, extractVars, pipelineVars, exhibitVars, rerunVars, requestVars, connectVars, pageVars, atomVars, batchVars, workflowVars, edgarVars, recursionVars, publish502Vars, tokenVars>>
notExtractVars == <<limiterVars, storeVars, publishVars, pipelineVars, exhibitVars, rerunVars, requestVars, connectVars, pageVars, atomVars, batchVars, workflowVars, edgarVars, recursionVars, publish502Vars, tokenVars>>
notExhibitVars == <<limiterVars, storeVars, publishVars, extractVars, pipelineVars, rerunVars, requestVars, connectVars, pageVars, atomVars, batchVars, workflowVars, edgarVars, recursionVars, publish502Vars, tokenVars>>
notRerunVars == <<limiterVars, storeVars, publishVars, extractVars, pipelineVars, exhibitVars, requestVars, connectVars, pageVars, atomVars, batchVars, workflowVars, edgarVars, recursionVars, publish502Vars, tokenVars>>
notRequestVars == <<limiterVars, storeVars, publishVars, extractVars, pipelineVars, exhibitVars, rerunVars, connectVars, pageVars, atomVars, batchVars, workflowVars, edgarVars, recursionVars, publish502Vars, tokenVars>>
notConnectVars == <<limiterVars, storeVars, publishVars, extractVars, pipelineVars, exhibitVars, rerunVars, requestVars, pageVars, atomVars, batchVars, workflowVars, edgarVars, recursionVars, publish502Vars, tokenVars>>
notPageVars == <<limiterVars, storeVars, publishVars, extractVars, pipelineVars, exhibitVars, rerunVars, requestVars, connectVars, atomVars, batchVars, workflowVars, edgarVars, recursionVars, publish502Vars, tokenVars>>
notAtomVars == <<limiterVars, storeVars, publishVars, extractVars, pipelineVars, exhibitVars, rerunVars, requestVars, connectVars, pageVars, batchVars, workflowVars, edgarVars, recursionVars, publish502Vars, tokenVars>>
notBatchVars == <<limiterVars, storeVars, publishVars, extractVars, pipelineVars, exhibitVars, rerunVars, requestVars, connectVars, pageVars, atomVars, workflowVars, edgarVars, recursionVars, publish502Vars, tokenVars>>
notWorkflowVars == <<limiterVars, storeVars, publishVars, extractVars, pipelineVars, exhibitVars, rerunVars, requestVars, connectVars, pageVars, atomVars, batchVars, edgarVars, recursionVars, publish502Vars, tokenVars>>
notEdgarVars == <<limiterVars, storeVars, publishVars, extractVars, pipelineVars, exhibitVars, rerunVars, requestVars, connectVars, pageVars, atomVars, batchVars, workflowVars, recursionVars, publish502Vars, tokenVars>>
notRecursionVars == <<limiterVars, storeVars, publishVars, extractVars, pipelineVars, exhibitVars, rerunVars, requestVars, connectVars, pageVars, atomVars, batchVars, workflowVars, edgarVars, publish502Vars, tokenVars>>
notPublish502Vars == <<limiterVars, storeVars, publishVars, extractVars, pipelineVars, exhibitVars, rerunVars, requestVars, connectVars, pageVars, atomVars, batchVars, workflowVars, edgarVars, recursionVars, tokenVars>>
notTokenVars == <<limiterVars, storeVars, publishVars, extractVars, pipelineVars, exhibitVars, rerunVars, requestVars, connectVars, pageVars, atomVars, batchVars, workflowVars, edgarVars, recursionVars, publish502Vars>>

(* ------------------------------------------------------------------ *)
(* RateLimiter                                                         *)
(* ------------------------------------------------------------------ *)

PruneKeepsAll(rt, now) == rt

\* [t for t in self.request_times if now - t < SEC_BURST_WINDOW]
Prune(rt, now) == SelectSeq(rt, LAMBDA t : now - t < SEC_BURST_WINDOW)

BurstLimitReachedOffByOne(rt) == Len(rt) > SEC_BURST_LIMIT

\* if len(self.request_times) >= SEC_BURST_LIMIT
BurstLimitReached(rt) == Len(rt) >= SEC_BURST_LIMIT

\* wait_time = self.request_times[0] + SEC_BURST_WINDOW - now
BurstWaitTime(rt, now) == rt[1] + SEC_BURST_WINDOW - now

RateWaitTimeNoCheck(last, now) == 0

\* the sleep of the rate check; 0 when the check does not sleep
RateWaitTime(last, now) ==
    IF last > 0 /\ now - last < SEC_RATE_LIMIT
    THEN SEC_RATE_LIMIT - (now - last)
    ELSE 0

LockAlwaysFree(l) == TRUE

\* asyncio.Lock.acquire takes the lock at once only if it is unlocked and
\* nobody is queued on it
LockFree(l) ==
    /\ l \notin held
    /\ \A i \in 1..Len(waiters) : my_lock[waiters[i]] # l

UpdateTrackingKeepsLock(c, now, rt) ==
    /\ last_request_time' = now
    /\ request_times' = Append(rt, now)
    /\ recorded' = Append(recorded, now)
    /\ held' = held \cup {my_lock'[c]}
    /\ pc' = [pc EXCEPT ![c] = "idle"]
    /\ wake' = [wake EXCEPT ![c] = 0]

\* "Update tracking" and the exit of `async with`
UpdateTracking(c, now, rt) ==
    /\ last_request_time' = now
    /\ request_times' = Append(rt, now)
    /\ recorded' = Append(recorded, now)
    /\ held' = held \ {my_lock'[c]}
    /\ pc' = [pc EXCEPT ![c] = "idle"]
    /\ wake' = [wake EXCEPT ![c] = 0]

\* "Check rate limit"
RateCheck(c, now, rt) ==
    LET w == RateWaitTime(last_request_time, now) IN
    IF w > 0
    THEN /\ pc' = [pc EXCEPT ![c] = "rateSleep"]
         /\ wake' = [wake EXCEPT ![c] = now + w]
         /\ request_times' = rt
         /\ held' = held \cup {my_lock'[c]}
         /\ UNCHANGED <<last_request_time, recorded>>
    ELSE UpdateTracking(c, now, rt)

\* the body of `async with self._async_lock` up to its first await
CriticalSection(c, now) ==
    LET rt == Prune(request_times, now) IN
    IF BurstLimitReached(rt) /\ BurstWaitTime(rt, now) > 0
    THEN /\ pc' = [pc EXCEPT ![c] = "burstSleep"]
         /\ wake' = [wake EXCEPT ![c] = now + BurstWaitTime(rt, now)]
         /\ request_times' = rt
         /\ held' = held \cup {my_lock'[c]}
         /\ UNCHANGED <<last_request_time, recorded>>
    ELSE RateCheck(c, now, rt)

\* a caller enters wait(): it takes the lock at once or queues on it
WaitCall(c) ==
    /\ pc[c] = "idle"
    /\ my_lock' = [my_lock EXCEPT ![c] = async_lock]
    /\ IF LockFree(async_lock)
       THEN /\ CriticalSection(c, clock)
            /\ UNCHANGED waiters
       ELSE /\ pc' = [pc EXCEPT ![c] = "acquiring"]
            /\ waiters' = Append(waiters, c)
            /\ UNCHANGED <<last_request_time, request_times, held, wake, recorded>>
    /\ UNCHANGED <<clock, async_lock>>
    /\ UNCHANGED notLimiterVars

\* the first caller queued on a released lock gets it
WaitAcquire(c) ==
    /\ pc[c] = "acquiring"
    /\ my_lock[c] \notin held
    /\ \E i \in 1..Len(waiters) :
          /\ waiters[i] = c
          /\ \A j \in 1..(i-1) : my_lock[waiters[j]] # my_lock[c]
          /\ waiters' = SubSeq(waiters, 1, i-1) \o SubSeq(waiters, i+1, Len(waiters))
    /\ my_lock' = my_lock
    /\ CriticalSection(c, clock)
    /\ UNCHANGED <<clock, async_lock>>
    /\ UNCHANGED notLimiterVars

\* return of the asyncio.sleep of the burst check
WaitAfterBurstSleep(c) ==
    /\ pc[c] = "burstSleep"
    /\ clock >= wake[c]
    /\ my_lock' = my_lock
    /\ RateCheck(c, clock, Prune(request_times, clock))
    /\ UNCHANGED <<clock, async_lock, waiters>>
    /\ UNCHANGED notLimiterVars

\* return of the asyncio.sleep of the rate check
WaitAfterRateSleep(c) ==
    /\ pc[c] = "rateSleep"
    /\ clock >= wake[c]
    /\ my_lock' = my_lock
    /\ UpdateTracking(c, clock, request_times)
    /\ UNCHANGED <<clock, async_lock, waiters>>
    /\ UNCHANGED notLimiterVars

\* RateLimiter(): __new__ returns the singleton, then the dataclass-generated
\* __init__ runs on it and assigns every field its default again
Construct ==
    /\ async_lock < MaxLocks
    /\ async_lock' = async_lock + 1
    /\ last_request_time' = 0
    /\ request_times' = << >>
    /\ UNCHANGED <<clock, held, waiters, pc, my_lock, wake, recorded>>
    /\ UNCHANGED notLimiterVars

Tick(bound) ==
    /\ clock < bound
    /\ clock' = clock + 1
    /\ UNCHANGED <<last_request_time, request_times, async_lock, held,
                   waiters, pc, my_lock, wake, recorded>>
    /\ UNCHANGED notLimiterVars

\* time passing while some caller is inside an asyncio.sleep
TickAsleep(bound) ==
    /\ \E c \in Callers : pc[c] \in {"burstSleep", "rateSleep"} /\ clock < wake[c]
    /\ Tick(bound)

\* time passes while a caller is inside an asyncio.sleep, until it is over
TickWhileAsleep ==
    /\ \E c \in Callers : pc[c] \in {"burstSleep", "rateSleep"} /\ clock < wake[c]
    /\ clock' = clock + 1
    /\ UNCHANGED <<last_request_time, request_times, async_lock, held,
                   waiters, pc, my_lock, wake, recorded>>
    /\ UNCHANGED notLimiterVars

\* the calls of wait() that have not returned
InFlight == {c \in Callers : pc[c] # "idle"}

\* one of a finite number of wait() calls starts
WaitCallOfMany(c) ==
    /\ Len(recorded) + Cardinality(InFlight) < MaxWaits
    /\ WaitCall(c)

InitLimiter ==
    /\ clock = 1
    /\ last_request_time = 0
    /\ request_times = << >>
    /\ async_lock = 1
    /\ held = {}
    /\ waiters = << >>
    /\ pc = [c \in Callers |-> "idle"]
    /\ my_lock = [c \in Callers |-> 1]
    /\ wake = [c \in Callers |-> 0]
    /\ recorded = << >>


(* ------------------------------------------------------------------ *)
(* Listing store: filter_out_existing_primary_keys, insert_records,    *)
(* grab_recent_filings                                                 *)
(* ------------------------------------------------------------------ *)

Urls == {"u1", "u2"}
Runs == {"r1", "r2"}

\* utils.py:15-18
ALLOWED_8K_ITEMS ==
    {"2.02", "1.01", "5.02", "2.01", "8.01", "1.03",
     "3.01", "4.02", "2.03", "5.03", "4.01", "5.07"}

\* FilingRSSFeedEntry values a feed page can hold (item_list as the set
\* item_list.split(',')), with the market cap the
\* enrichment collaborator answers for them
FeedEntries ==
    {[base_url |-> "u1", item_list |-> {"8.01", "9.01"}, market_cap |-> 2],
     [base_url |-> "u2", item_list |-> {"8.01", "9.01"}, market_cap |-> 2],
     [base_url |-> "u1", item_list |-> {"8.01"}, market_cap |-> 2],
     [base_url |-> "u2", item_list |-> {"8.01", "9.01"}, market_cap |-> 0]}

SeqsUpTo(S, n) == UNION {[1..k -> S] : k \in 0..n}
ToSet(seq) == {seq[i] : i \in 1..Len(seq)}

\* the row INSERT writes for a feed entry (processed defaults to False,
\* raw_8k_text to '')
ListingRow(f) ==
    [base_url |-> f.base_url, item_list |-> f.item_list,
     market_cap |-> f.market_cap, processed |-> FALSE, raw_8k_text |-> << >>]

StoredKeys(table) == {row.base_url : row \in table}

FilterReturnsEveryKey(table, keys) == ToSet(keys)

\* filter_out_existing_primary_keys for the single-column key base_url, with
\* the keys given as strings: SELECT the stored ones, return the set
\* difference (a list in no particular order)
FilterOutExistingPrimaryKeys(table, keys) ==
    IF keys = << >>
    THEN {}
    ELSE LET existing_keys == {row.base_url : row \in {t \in table : t.base_url \in ToSet(keys)}}
         IN  ToSet(keys) \ existing_keys

\* executemany of a plain INSERT: one INSERT per record, in order; the first
\* one that hits the PRIMARY KEY constraint raises and ends the call
RECURSIVE ExecuteManyInsert(_, _, _)
ExecuteManyInsert(table, rows, i) ==
    IF i > Len(rows)
    THEN [table |-> table, raised |-> FALSE]
    ELSE IF rows[i].base_url \in StoredKeys(table)
         THEN [table |-> table, raised |-> TRUE]
         ELSE ExecuteManyInsert(table \cup {rows[i]}, rows, i + 1)

InsertRecords(table, records) ==
    IF records = << >>
    THEN [table |-> table, raised |-> FALSE]
    ELSE ExecuteManyInsert(table, [i \in 1..Len(records) |-> ListingRow(records[i])], 1)

\* new_filings after the two filters of grab_recent_filings (lines 45-46)
FilteredNewFilings(new_filings) ==
    SelectSeq(SelectSeq(new_filings, LAMBDA f : f.market_cap >= 1),
              LAMBDA f : f.item_list \ ALLOWED_8K_ITEMS # {})

\* a direct call of filter_out_existing_primary_keys('filed_8k_listing', keys)
FilterCall(keys) ==
    /\ Len(f_calls) < MaxFilterCalls
    /\ f_calls' = Append(f_calls,
                         [arg |-> keys,
                          res |-> FilterOutExistingPrimaryKeys(filed_8k_listing, keys),
                          before |-> filed_8k_listing,
                          after |-> filed_8k_listing])
    /\ UNCHANGED <<filed_8k_listing, g_pc, g_new, g_ins, g_raised>>
    /\ UNCHANGED notStoreVars

\* grab_recent_filings up to its first await after the filter: fetch and
\* parse the feed page, keep the entries whose base_url is unseen
GrabFetch(r, filings) ==
    /\ g_pc[r] \in {"idle", "done"}
    /\ LET unseen == FilterOutExistingPrimaryKeys(filed_8k_listing,
                         [i \in 1..Len(filings) |-> filings[i].base_url])
       IN  g_new' = [g_new EXCEPT ![r] = SelectSeq(filings, LAMBDA f : f.base_url \in unseen)]
    /\ g_pc' = [g_pc EXCEPT ![r] = "enrich"]
    /\ g_raised' = [g_raised EXCEPT ![r] = FALSE]
    /\ g_ins' = [g_ins EXCEPT ![r] = << >>]
    /\ UNCHANGED <<filed_8k_listing, f_calls>>
    /\ UNCHANGED notStoreVars

\* grab_recent_filings after the enrichment awaits: filter, insert_records.
\* Whether DuckDB keeps the rows inserted before a failing INSERT of the
\* same executemany is left open.
GrabInsert(r) ==
    /\ g_pc[r] = "enrich"
    /\ LET res == InsertRecords(filed_8k_listing, FilteredNewFilings(g_new[r]))
       IN  /\ \E keepsEarlierRows \in BOOLEAN :
                filed_8k_listing' = IF res.raised /\ ~keepsEarlierRows
                                    THEN filed_8k_listing
                                    ELSE res.table
           /\ g_raised' = [g_raised EXCEPT ![r] = res.raised]
    /\ g_pc' = [g_pc EXCEPT ![r] = "done"]
    /\ f_calls' = << >>
    /\ g_ins' = [g_ins EXCEPT ![r] =
                    [i \in 1..Len(FilteredNewFilings(g_new[r])) |->
                        FilteredNewFilings(g_new[r])[i].base_url]]
    /\ g_new' = [g_new EXCEPT ![r] = << >>]
    /\ UNCHANGED notStoreVars

InitStore ==
    /\ filed_8k_listing = {}
    /\ f_calls = << >>
    /\ g_pc = [r \in Runs |-> "idle"]
    /\ g_new = [r \in Runs |-> << >>]
    /\ g_ins = [r \in Runs |-> << >>]
    /\ g_raised = [r \in Runs |-> FALSE]

(* ------------------------------------------------------------------ *)
(* publish_parsed_801                                                  *)
(* ------------------------------------------------------------------ *)

\* (cik, filing_date, item_number) triples and analysis contents
Keys801 == {"k1", "k2"}
Contents801 == {"a", "b", "c"}

RowsOfKey(table, k) == SelectSeq(table, LAMBDA row : row.key = k)

\* the statements of insert(): SELECT the key; if it exists DELETE its rows
\* and then UPDATE the rows of the key (none are left); otherwise append
PublishedTable(table, k, v) ==
    LET existing_cik == Len(RowsOfKey(table, k)) > 0
        afterDelete == IF existing_cik
                       THEN SelectSeq(table, LAMBDA row : row.key # k)
                       ELSE table
    IN  IF existing_cik
        THEN [i \in 1..Len(afterDelete) |->
                 IF afterDelete[i].key = k
                 THEN [key |-> k, content |-> v]
                 ELSE afterDelete[i]]
        ELSE Append(afterDelete, [key |-> k, content |-> v])

publish_parsed_801(k, v) ==
    /\ pub_count < MaxPublish
    /\ analyzed_item801' = PublishedTable(analyzed_item801, k, v)
    /\ pub_last' = [pub_last EXCEPT ![k] = v]
    /\ pub_count' = pub_count + 1
    /\ UNCHANGED notPublishVars

InitPublish ==
    /\ analyzed_item801 = << >>
    /\ pub_last = [k \in Keys801 |-> "none"]
    /\ pub_count = 0


(* ------------------------------------------------------------------ *)
(* Section extraction: clean_text, clean_and_extract_normalized_sections *)
(*                                                                     *)
(* A text is a sequence of symbols: " " is one whitespace character,   *)
(* every other symbol is a run of alphanumeric characters: "Item" and  *)
(* "ITEM" the marker word in two casings, "8.01" and "9.01" two item   *)
(* codes (\d+\.\d+), "w1" and "w2" two other words.  A document is a   *)
(* tag-free text given by its words and by whether its whitespace is   *)
(* padded (runs of two, and leading and trailing whitespace).          *)
(* ------------------------------------------------------------------ *)

MarkerWords == {"Item", "ITEM"}
Codes == {"8.01", "9.01"}
BodyWords == {"w1", "w2"}
Tokens == MarkerWords \cup Codes \cup BodyWords

Docs == [tokens : SeqsUpTo(Tokens, MaxTokens), padded : BOOLEAN]

RECURSIVE JoinWords(_, _)
JoinWords(words, sep) ==
    IF Len(words) = 0 THEN << >>
    ELSE IF Len(words) = 1 THEN <<words[1]>>
    ELSE <<words[1]>> \o sep \o JoinWords(Tail(words), sep)

\* the raw text of a document
RawText(d) ==
    IF d.padded
    THEN <<" ", " ">> \o JoinWords(d.tokens, <<" ", " ">>) \o <<" ">>
    ELSE JoinWords(d.tokens, <<" ">>)

\* re.sub(r'\s+', ' ', text)
RECURSIVE CollapseWhitespace(_)
CollapseWhitespace(text) ==
    IF Len(text) <= 1 THEN text
    ELSE IF text[1] = " " /\ text[2] = " "
         THEN CollapseWhitespace(Tail(text))
         ELSE <<text[1]>> \o CollapseWhitespace(Tail(text))

\* str.strip() of a text whose whitespace runs are already single
Strip(text) ==
    LET first == IF Len(text) > 0 /\ text[1] = " " THEN 2 ELSE 1
        last  == IF Len(text) > 0 /\ text[Len(text)] = " " THEN Len(text) - 1 ELSE Len(text)
    IN  SubSeq(text, first, last)

\* clean_text: (no entities or unicode punctuation in these texts,) collapse
\* whitespace, strip
clean_text(text) == Strip(CollapseWhitespace(text))

\* steps 3 and 4 on a tag-free text: the parser wraps it in a paragraph, a
\* line break is inserted before the paragraph and get_text returns the text
\* behind it
PlainTextOfSoup(text) == <<" ">> \o text

\* step 5: re.sub(r'ITEM', 'Item', plain_text, flags=re.IGNORECASE)
NormalizeItemCasing(text) ==
    [i \in 1..Len(text) |-> IF text[i] \in MarkerWords THEN "Item" ELSE text[i]]

\* first index >= i that holds no whitespace (Len + 1 if there is none)
RECURSIVE SkipWhitespace(_, _)
SkipWhitespace(text, i) ==
    IF i <= Len(text) /\ text[i] = " " THEN SkipWhitespace(text, i + 1) ELSE i

\* Item\s+\d+\.\d+ matched at i: the index behind the code, else 0
MarkerEnd(text, i) ==
    IF i + 1 <= Len(text) /\ text[i] = "Item" /\ text[i+1] = " "
    THEN LET j == SkipWhitespace(text, i + 1)
         IN  IF j <= Len(text) /\ text[j] \in Codes THEN j + 1 ELSE 0
    ELSE 0

\* Item\s+\d+\.\d+[^A-Za-z0-9]+ matches at i
MarkerAt(text, i) ==
    LET h == MarkerEnd(text, i)
    IN  h > 0 /\ h <= Len(text) /\ text[h] = " "

\* the lookahead (?=Item\s+\d+\.\d+[^A-Za-z0-9]+|$) holds at p
LookaheadAt(text, p) == MarkerAt(text, p) \/ p = Len(text) + 1

SetMin(S) == CHOOSE x \in S : \A y \in S : x <= y
SetMax(S) == CHOOSE x \in S : \A y \in S : x >= y

\* the whole pattern matched at i: the index e of the literal space that
\* ends group 1 (greedy [^A-Za-z0-9]+, then lazy .*?), else 0
MatchEnd(text, i) ==
    IF ~MarkerAt(text, i) THEN 0
    ELSE LET h0 == MarkerEnd(text, i)
             h  == SkipWhitespace(text, h0)
             ends == {e \in (h0 + 1)..Len(text) :
                         text[e] = " " /\ LookaheadAt(text, e + 1)}
             lazy == {e \in ends : e >= h}
         IN  IF lazy # {} THEN SetMin(lazy)
             ELSE IF ends # {} THEN SetMax(ends)
             ELSE 0

NoSections == [c \in Codes |-> << >>]

\* finditer from pos and the loop over its matches: the code of a match is
\* the one behind its marker word, a later match of a code overwrites
RECURSIVE FindSections(_, _, _)
FindSections(text, pos, found) ==
    LET starts == {i \in pos..Len(text) : MatchEnd(text, i) > 0}
    IN  IF starts = {} THEN found
        ELSE LET i == SetMin(starts)
                 e == MatchEnd(text, i)
                 section_text == Strip(SubSeq(text, i, e - 1))
                 code == text[SkipWhitespace(text, i + 1)]
             IN  FindSections(text, e + 1, [found EXCEPT ![code] = section_text])

\* clean_and_extract_normalized_sections; the map is a function on Codes
\* with the empty text for the codes that have no entry
clean_and_extract_normalized_sections(raw_text) ==
    IF raw_text = << >>
    THEN NoSections
    ELSE LET text == clean_text(raw_text)
             plain_text == NormalizeItemCasing(clean_text(PlainTextOfSoup(text)))
         IN  FindSections(plain_text, 1, NoSections)

\* one call of the extractor on the document
Extract ==
    /\ x_pc = "input"
    /\ sections' = clean_and_extract_normalized_sections(RawText(doc))
    /\ x_pc' = "extracted"
    /\ UNCHANGED doc
    /\ UNCHANGED notExtractVars

InitExtract ==
    /\ doc = [tokens |-> << >>, padded |-> FALSE]
    /\ sections = NoSections
    /\ x_pc = "input"


(* ------------------------------------------------------------------ *)
(* parse_filings: download, parse, item analysis, exhibit analysis,    *)
(* insert of the sections, update_processed_filings                    *)
(* ------------------------------------------------------------------ *)

\* primary documents the SEC collaborator can answer with: one without a
\* section boundary, two with two sections each
PrimaryTexts ==
    {RawText([tokens |-> <<"w1">>, padded |-> FALSE]),
     RawText([tokens |-> <<"Item", "8.01", "w1", "Item", "9.01", "w2">>, padded |-> FALSE]),
     RawText([tokens |-> <<"Item", "9.01", "w1", "Item", "8.01", "w2">>, padded |-> TRUE])}

\* what download_one meets for a listing: both requests answered, the index
\* request or extract_8k_url_from_base_url raising (outside the try), or the
\* request of the primary document raising (inside the try)
DownloadOutcomes ==
    [kind : {"ok"}, text : PrimaryTexts]
        \cup [kind : {"index_fails", "text_fails"}, text : {<< >>}]

\* what run_item801_analysis answers for the 8.01 section of a listing
AnalysisOutcomes == Contents801 \cup {"raises"}

\* filings = self.db.get_unprocessed_filings()
get_unprocessed_filings(table) == {row \in table : ~row.processed}

BaseUrls(filings) == {f.base_url : f \in filings}

\* gather(download_one...) raises when one download_one raises
DownloadRaises(filings, outcome) ==
    \E u \in BaseUrls(filings) : outcome[u].kind = "index_fails"

\* filing.raw_8k_text of the in-memory filing after download_one
DownloadedText(f, outcome) ==
    IF outcome[f.base_url].kind = "ok" THEN outcome[f.base_url].text ELSE f.raw_8k_text

update_url_8k_and_cap(table, stored, outcome) ==
    {IF row.base_url \in stored
     THEN [row EXCEPT !.raw_8k_text = outcome[row.base_url].text, !.market_cap = 0]
     ELSE row : row \in table}

\* update_url_8k for the listings in stored
update_url_8k(table, stored, outcome) ==
    {IF row.base_url \in stored
     THEN [row EXCEPT !.raw_8k_text = outcome[row.base_url].text]
     ELSE row : row \in table}

\* the map the extractor returns for each text a filing can hold
SectionsOfText ==
    [text \in PrimaryTexts \cup {<< >>} |-> clean_and_extract_normalized_sections(text)]

\* FilingParser.parse: one Parsed8KText per entry of the map of each filing
ParsedTexts(filings, outcome) ==
    {[base_url |-> fc[1].base_url, item_number |-> fc[2],
      item_text |-> SectionsOfText[DownloadedText(fc[1], outcome)][fc[2]]] :
        fc \in {x \in filings \X Codes :
            SectionsOfText[DownloadedText(x[1], outcome)][x[2]] # << >>}}

\* the listings of the batch for which the extractor returned the empty map
EmptyExtractions(filings, outcome) ==
    {f.base_url : f \in {g \in filings :
        SectionsOfText[DownloadedText(g, outcome)] = NoSections}}

\* the (cik, filing_date, item_number) key of the 8.01 section of a listing
Key801OfUrl(u) == IF u = "u1" THEN "k1" ELSE "k2"

\* the listings whose 8.01 section goes to run_item801_analysis
Analyzed801(parsed_texts) ==
    {t.base_url : t \in {x \in parsed_texts : x.item_number = "8.01"}}

\* gather(analyze_one...) raises when one analyze_one raises
AnalysisRaises(parsed_texts, analysis) ==
    \E u \in Analyzed801(parsed_texts) : analysis[u] = "raises"

\* publish_parsed_801 for the listings in published (rows of different
\* keys, so the order of the calls does not show in the rows of a key)
PublishAll(table, published, analysis) ==
    LET first == IF "u1" \in published
                 THEN PublishedTable(table, Key801OfUrl("u1"), analysis["u1"])
                 ELSE table
    IN  IF "u2" \in published
        THEN PublishedTable(first, Key801OfUrl("u2"), analysis["u2"])
        ELSE first

\* ExhibitAnalyzer.analyze reads parsed.urls_ex99 of the first parsed text;
\* Parsed8KText declares no such field, the read raises AttributeError
ExhibitRaises(parsed_texts) == parsed_texts # {}

\* the loop of insert_records('parsed_8k_text', record): a record whose key
\* is stored raises inside the try and is skipped
InsertParsedTexts(table, parsed_texts) ==
    table \cup {t \in parsed_texts :
                   ~\E row \in table : /\ row.base_url = t.base_url
                                       /\ row.item_number = t.item_number}

\* update_processed_filings(base_urls)
update_processed_filings(table, base_urls) ==
    {IF row.base_url \in base_urls
     THEN [row EXCEPT !.processed = TRUE]
     ELSE row : row \in table}

NoRound ==
    [batch |-> {}, unresolved |-> {}, text_failed |-> {}, fetched |-> {},
     sections |-> {}, analysis_failed |-> {}, empty |-> {}, raised |-> "none"]

\* the (listing, item_number) keys of a set of Parsed8KText records
SectionKeys(parsed_texts) == {<<t.base_url, t.item_number>> : t \in parsed_texts}

\* the listings of the batch whose download_one ended in the named way
OutcomeKind(filings, outcome, kind) ==
    {u \in BaseUrls(filings) : outcome[u].kind = kind}

\* when gather raises, the sibling coroutines are left running: stored says
\* which of the answered downloads got to update_url_8k
StoredChoices(filings, outcome) ==
    IF DownloadRaises(filings, outcome)
    THEN SUBSET OutcomeKind(filings, outcome, "ok")
    ELSE {OutcomeKind(filings, outcome, "ok")}

\* the listings whose 8.01 section is analysed in the round
AnalyzedUrls(filings, outcome) ==
    IF DownloadRaises(filings, outcome)
    THEN {}
    ELSE Analyzed801(ParsedTexts(filings, outcome))

\* published says which analyses got to publish_parsed_801: all of them,
\* unless gather raised and left the others running
PublishedChoices(filings, outcome, analysis) ==
    IF \E u \in AnalyzedUrls(filings, outcome) : analysis[u] = "raises"
    THEN SUBSET {u \in AnalyzedUrls(filings, outcome) : analysis[u] # "raises"}
    ELSE {AnalyzedUrls(filings, outcome)}

\* one round of parse_filings on the tables: the tables it leaves and what
\* it did.  outcome and analysis are the collaborators' answers.
ParseRound(listing, item801, last801, parsed, outcome, stored, analysis, published) ==
    LET filings == get_unprocessed_filings(listing)
        parsed_texts == ParsedTexts(filings, outcome)
        downloaded == update_url_8k(listing, stored, outcome)
        round == [batch |-> BaseUrls(filings),
                  unresolved |-> OutcomeKind(filings, outcome, "index_fails"),
                  text_failed |-> OutcomeKind(filings, outcome, "text_fails"),
                  fetched |-> OutcomeKind(filings, outcome, "ok"),
                  sections |-> {}, analysis_failed |-> {}, empty |-> {}, raised |-> "none"]
        analysed == [filed_8k_listing |-> downloaded,
                     analyzed_item801 |-> PublishAll(item801, published, analysis),
                     pub_last |-> [k \in Keys801 |->
                                      IF \E u \in published : Key801OfUrl(u) = k
                                      THEN analysis[CHOOSE u \in published : Key801OfUrl(u) = k]
                                      ELSE last801[k]],
                     parsed_8k_text |-> parsed,
                     p_last |-> [round EXCEPT
                                    !.empty = EmptyExtractions(filings, outcome),
                                    !.sections = SectionKeys(parsed_texts),
                                    !.analysis_failed =
                                        {u \in Analyzed801(parsed_texts) : analysis[u] = "raises"}]]
    IN  IF filings = {}
        THEN [filed_8k_listing |-> listing, analyzed_item801 |-> item801,
              pub_last |-> last801, parsed_8k_text |-> parsed, p_last |-> NoRound]
        ELSE IF DownloadRaises(filings, outcome)
        THEN [filed_8k_listing |-> downloaded, analyzed_item801 |-> item801,
              pub_last |-> last801, parsed_8k_text |-> parsed,
              p_last |-> [round EXCEPT !.raised = "download"]]
        ELSE IF AnalysisRaises(parsed_texts, analysis)
        THEN [analysed EXCEPT !.p_last.raised = "analysis"]
        ELSE IF ExhibitRaises(parsed_texts)
        THEN [analysed EXCEPT !.p_last.raised = "exhibit"]
        ELSE [analysed EXCEPT
                 !.parsed_8k_text = InsertParsedTexts(parsed, parsed_texts),
                 !.filed_8k_listing = update_processed_filings(downloaded, BaseUrls(filings))]

\* one round of parse_filings on the unprocessed listings
ParseFilings ==
    /\ p_rounds < MaxRounds
    /\ g_pc["r1"] # "enrich"      \* parse_filings is called after grab_recent_filings has returned
    /\ p_rounds' = p_rounds + 1
    /\ LET filings == get_unprocessed_filings(filed_8k_listing)
       IN  \E outcome \in [BaseUrls(filings) -> DownloadOutcomes] :
           \E stored \in StoredChoices(filings, outcome) :
           \E analysis \in [AnalyzedUrls(filings, outcome) -> AnalysisOutcomes] :
           \E published \in PublishedChoices(filings, outcome, analysis) :
           \E res \in {ParseRound(filed_8k_listing, analyzed_item801, pub_last,
                                   parsed_8k_text, outcome, stored, analysis, published)} :
                  /\ filed_8k_listing' = res.filed_8k_listing
                  /\ analyzed_item801' = res.analyzed_item801
                  /\ pub_last' = res.pub_last
                  /\ parsed_8k_text' = res.parsed_8k_text
                  /\ p_last' = res.p_last
    /\ UNCHANGED <<f_calls, g_pc, g_new, g_ins, g_raised, pub_count>>
    /\ UNCHANGED <<limiterVars, extractVars, exhibitVars, rerunVars, requestVars, connectVars, pageVars, atomVars, batchVars, workflowVars, edgarVars, recursionVars, publish502Vars, tokenVars>>

\* the end of parse_filings (the insert loop and update_processed_filings)
\* for a batch whose downloads were all answered and whose sections have
\* passed both analyzers; failed are the records whose insert_records raises
PersistSections(outcome, failed) ==
    /\ p_rounds < MaxRounds
    /\ g_pc["r1"] # "enrich"
    /\ p_rounds' = p_rounds + 1
    /\ LET filings == get_unprocessed_filings(filed_8k_listing)
           parsed_texts == ParsedTexts(filings, outcome)
       IN  /\ filings # {}
           /\ failed \subseteq parsed_texts
           /\ parsed_8k_text' = InsertParsedTexts(parsed_8k_text, parsed_texts \ failed)
           /\ filed_8k_listing' =
                  update_processed_filings(
                      update_url_8k(filed_8k_listing, BaseUrls(filings), outcome),
                      BaseUrls(filings))
           /\ p_last' = [NoRound EXCEPT !.batch = BaseUrls(filings),
                                        !.fetched = BaseUrls(filings),
                                        !.sections = SectionKeys(parsed_texts),
                                        !.empty = EmptyExtractions(filings, outcome)]
    /\ UNCHANGED <<f_calls, g_pc, g_new, g_ins, g_raised>>
    /\ UNCHANGED <<limiterVars, publishVars, extractVars, exhibitVars, rerunVars, requestVars, connectVars, pageVars, atomVars, batchVars, workflowVars, edgarVars, recursionVars, publish502Vars, tokenVars>>

InitPipeline ==
    /\ parsed_8k_text = {}
    /\ p_last = NoRound
    /\ p_rounds = 0

(* ------------------------------------------------------------------ *)
(* ExhibitAnalyzer.analyze and SharedSingletonSet, called on parsed    *)
(* sections that carry a supplemental URL list (urls_ex99)             *)
(* ------------------------------------------------------------------ *)

Ciks == {"c1", "c2"}
HtmUrls == {"a.htm", "b.htm"}
ExhibitUrls == HtmUrls \cup {"c.txt"}

\* parsed sections as analyze reads them: cik and urls_ex99, the latter as
\* the list urls_ex99.split(',') (the empty list for an empty urls_ex99)
UrlLists == {<< >>, <<"a.htm">>, <<"a.htm", "b.htm">>, <<"c.txt", "a.htm">>}
SectionsWithExhibits == [cik : Ciks, urls_ex99 : UrlLists]

\* SharedSingletonSet(): the set is created by the first construction only
SharedSingletonSet ==
    /\ set_created' = TRUE
    /\ exhibit_set' = IF set_created THEN exhibit_set ELSE {}

\* self.db.record_exists('parsed_ex99_text', key), key = (cik, filing_date, idx)
record_exists(table, cik, idx) ==
    \E row \in table : row.cik = cik /\ row.ex99_id = idx

\* url not in self.exhibit_set.get_all()
NeverClaimed(claimed, url) == TRUE

NotClaimed(claimed, url) == url \notin claimed

\* the loop of analyze over the sections from the i-th on and, for the i-th,
\* over its URLs from the j-th on: claimed is the shared set, tasks the tasks
\* appended so far (idx counts from 0)
RECURSIVE ClaimExhibits(_, _, _, _, _, _)
ClaimExhibits(parsed_texts, table, i, j, claimed, tasks) ==
    IF i > Len(parsed_texts)
    THEN [claimed |-> claimed, tasks |-> tasks]
    ELSE IF j > Len(parsed_texts[i].urls_ex99)
    THEN ClaimExhibits(parsed_texts, table, i + 1, 1, claimed, tasks)
    ELSE LET parsed == parsed_texts[i]
             url == parsed.urls_ex99[j]
         IN  IF /\ url \in HtmUrls
                /\ ~record_exists(table, parsed.cik, j - 1)
                /\ NotClaimed(claimed, url)
             THEN ClaimExhibits(parsed_texts, table, i, j + 1, claimed \cup {url},
                                Append(tasks, [cik |-> parsed.cik, ex99_id |-> j - 1, ex99_url |-> url]))
             ELSE ClaimExhibits(parsed_texts, table, i, j + 1, claimed, tasks)

\* ExhibitAnalyzer(client, db); a later construction finds the set created
\* and changes nothing
NewExhibitAnalyzer ==
    /\ ~set_created
    /\ SharedSingletonSet
    /\ UNCHANGED <<parsed_ex99_text, analyzed_ex99_text, ex_pc, ex_tasks, ex_started,
                   ex_carried, ex_calls>>
    /\ UNCHANGED notExhibitVars

\* analyze up to its first await: the loop that claims the URLs and creates
\* the download tasks
AnalyzeClaim(r, parsed_texts) ==
    /\ set_created
    /\ ex_pc[r] = "idle"
    /\ ex_calls < MaxAnalyzeCalls
    /\ UNCHANGED set_created
    /\ ex_carried' = [u \in ExhibitUrls |->
                         \/ ex_carried[u]
                         \/ \E i, k \in 1..Len(parsed_texts) :
                               /\ i < k
                               /\ u \in ToSet(parsed_texts[i].urls_ex99)
                               /\ u \in ToSet(parsed_texts[k].urls_ex99)]
    /\ LET res == ClaimExhibits(parsed_texts, parsed_ex99_text, 1, 1, exhibit_set, << >>)
       IN  /\ exhibit_set' = res.claimed
           /\ ex_tasks' = [ex_tasks EXCEPT ![r] = res.tasks]
           /\ ex_started' = [u \in ExhibitUrls |->
                                ex_started[u] + Cardinality({k \in 1..Len(res.tasks) :
                                                                res.tasks[k].ex99_url = u})]
    /\ ex_pc' = [ex_pc EXCEPT ![r] = "gather"]
    /\ ex_calls' = ex_calls + 1
    /\ UNCHANGED <<parsed_ex99_text, analyzed_ex99_text>>
    /\ UNCHANGED notExhibitVars

\* the exhibits of the tasks that did not fail, one per key (the last one)
ExhibitsByKey(tasks, failed) ==
    {t \in ToSet(tasks) :
        /\ t.ex99_url \notin failed
        /\ \E k \in 1..Len(tasks) :
              /\ tasks[k] = t
              /\ \A l \in (k + 1)..Len(tasks) :
                    (tasks[l].ex99_url \notin failed) =>
                        ~(tasks[l].cik = t.cik /\ tasks[l].ex99_id = t.ex99_id)}

\* analyze after the gathers: the two insert_records calls, the first of
\* which raises on a stored key.  failed are the URLs whose download or parse
\* raised, unanalyzed those whose run_doc_analysis raised.
AnalyzeInsert(r, failed, unanalyzed) ==
    /\ ex_pc[r] = "gather"
    /\ LET exhibits == ExhibitsByKey(ex_tasks[r], failed)
           raises == \E e \in exhibits : record_exists(parsed_ex99_text, e.cik, e.ex99_id)
       IN  /\ parsed_ex99_text' = IF raises THEN parsed_ex99_text
                                   ELSE parsed_ex99_text \cup exhibits
           /\ analyzed_ex99_text' =
                  IF raises THEN analyzed_ex99_text
                  ELSE analyzed_ex99_text \cup {e \in exhibits : e.ex99_url \notin unanalyzed}
    /\ ex_pc' = [ex_pc EXCEPT ![r] = "idle"]
    /\ ex_tasks' = [ex_tasks EXCEPT ![r] = << >>]
    /\ UNCHANGED <<set_created, exhibit_set, ex_started, ex_carried, ex_calls>>
    /\ UNCHANGED notExhibitVars

InitExhibit ==
    /\ set_created = FALSE
    /\ exhibit_set = {}
    /\ parsed_ex99_text = {}
    /\ analyzed_ex99_text = {}
    /\ ex_pc = [r \in Runs |-> "idle"]
    /\ ex_tasks = [r \in Runs |-> << >>]
    /\ ex_started = [u \in ExhibitUrls |-> 0]
    /\ ex_carried = [u \in ExhibitUrls |-> FALSE]
    /\ ex_calls = 0

(* ------------------------------------------------------------------ *)
(* main(): grab_recent_filings, then parse_filings, run twice on the   *)
(* same feed page and the same collaborators' answers                  *)
(* ------------------------------------------------------------------ *)

Environments ==
    [feed : SeqsUpTo(FeedEntries, MaxFeed),
     outcome : [Urls -> DownloadOutcomes],
     analysis : [Urls -> AnalysisOutcomes]]

\* a listing stored and processed by an earlier run
ProcessedRow(u) ==
    [base_url |-> u, item_list |-> {"8.01", "9.01"}, market_cap |-> 2,
     processed |-> TRUE, raw_8k_text |-> << >>]

\* the keys of the listing, section and exhibit tables
TableKeys ==
    [listing |-> StoredKeys(filed_8k_listing),
     sections |-> {<<t.base_url, t.item_number>> : t \in parsed_8k_text},
     exhibits |-> {<<e.cik, e.ex99_id>> : e \in parsed_ex99_text}]

\* the end of a run: the second run starts, or the program has ended
EndOfRun(raised) ==
    /\ r_error' = [r_error EXCEPT ![r_run] = raised]
    /\ IF r_run = 1
       THEN r_run' = 2 /\ r_pc' = "grab" /\ r_snap' = TableKeys'
       ELSE r_pc' = "ended" /\ UNCHANGED <<r_run, r_snap>>

\* grab_recent_filings on the feed page (the pages behind it are empty);
\* an exception of insert_records ends the run
RunGrab ==
    /\ r_pc = "grab"
    /\ UNCHANGED <<r_env, r_pre>>
    /\ UNCHANGED <<f_calls, g_pc, g_new, g_ins, g_raised>>
    /\ UNCHANGED <<limiterVars, publishVars, extractVars, pipelineVars, exhibitVars, requestVars, connectVars, pageVars, atomVars, batchVars, workflowVars, edgarVars, recursionVars, publish502Vars, tokenVars>>
    /\ LET filings == r_env.feed
           unseen == FilterOutExistingPrimaryKeys(filed_8k_listing,
                         [i \in 1..Len(filings) |-> filings[i].base_url])
           new_filings == SelectSeq(filings, LAMBDA f : f.base_url \in unseen)
           res == InsertRecords(filed_8k_listing, FilteredNewFilings(new_filings))
       IN  /\ \E keepsEarlierRows \in BOOLEAN :
                filed_8k_listing' = IF res.raised /\ ~keepsEarlierRows
                                    THEN filed_8k_listing
                                    ELSE res.table
           /\ IF res.raised
              THEN EndOfRun(TRUE)
              ELSE r_pc' = "parse" /\ UNCHANGED <<r_run, r_error, r_snap>>

\* one round of parse_filings with the answers of the environment; the
\* recursion ends with an empty batch or with an exception
RunParse ==
    /\ r_pc = "parse"
    /\ UNCHANGED <<r_env, r_pre, p_rounds>>
    /\ UNCHANGED <<f_calls, g_pc, g_new, g_ins, g_raised, pub_count>>
    /\ UNCHANGED <<limiterVars, extractVars, exhibitVars, requestVars, connectVars, pageVars, atomVars, batchVars, workflowVars, edgarVars, recursionVars, publish502Vars, tokenVars>>
    /\ LET filings == get_unprocessed_filings(filed_8k_listing)
           outcome == [u \in BaseUrls(filings) |-> r_env.outcome[u]]
           analysis == [u \in AnalyzedUrls(filings, outcome) |-> r_env.analysis[u]]
       IN  \E stored \in StoredChoices(filings, outcome) :
           \E published \in PublishedChoices(filings, outcome, analysis) :
           \E res \in {ParseRound(filed_8k_listing, analyzed_item801, pub_last,
                                   parsed_8k_text, outcome, stored, analysis, published)} :
                  /\ filed_8k_listing' = res.filed_8k_listing
                  /\ analyzed_item801' = res.analyzed_item801
                  /\ pub_last' = res.pub_last
                  /\ parsed_8k_text' = res.parsed_8k_text
                  /\ p_last' = res.p_last
                  /\ IF res.p_last.raised # "none"
                     THEN EndOfRun(TRUE)
                     ELSE IF filings = {}
                     THEN EndOfRun(FALSE)
                     ELSE UNCHANGED <<r_run, r_pc, r_error, r_snap>>

InitRerun ==
    /\ r_env = [feed |-> << >>,
                outcome |-> [u \in Urls |-> [kind |-> "text_fails", text |-> << >>]],
                analysis |-> [u \in Urls |-> "a"]]
    /\ r_pre = {}
    /\ r_run = 1
    /\ r_pc = "grab"
    /\ r_error = [n \in {1, 2} |-> FALSE]
    /\ r_snap = [listing |-> {}, sections |-> {}, exhibits |-> {}]

(* ------------------------------------------------------------------ *)
(* SECClient: rate-limited requests                                    *)
(* ------------------------------------------------------------------ *)

\* coroutines that call the client, possibly at the same time
Requests == {"q1", "q2"}
RequestKinds == {"text", "json"}

\* what session.get and the reading of the response can do: answer 200,
\* answer an error status, fail with a ClientError, fail with an exception
\* that is not a ClientError, or (json) deliver a body that is not JSON
GetOutcomes == {"ok", "bad_status", "client_error", "other_error", "invalid_json"}

\* the exception the body of the try block raises, "none" when it returns
RaisedByGet(kind, raise_for_status, outcome) ==
    CASE outcome = "ok" -> "none"
      [] outcome = "bad_status" -> IF raise_for_status THEN "ClientError" ELSE "none"
      [] outcome = "client_error" -> "ClientError"
      [] outcome = "other_error" -> "OtherError"
      [] outcome = "invalid_json" -> IF kind = "json" THEN "ValueError" ELSE "none"

AfterGetRetrying(raised) == IF raised = "none" THEN "returned" ELSE "wait"

\* the except clauses log and re-raise; every other exception passes through
AfterGet(raised) == IF raised = "none" THEN "returned" ELSE "raised"

\* a coroutine enters _make_request or _make_json_request
MakeRequest(q, kind, raise_for_status) ==
    /\ rq_pc[q] \in {"idle", "returned", "raised"}
    /\ rq_calls < MaxRequests
    /\ rq_calls' = rq_calls + 1
    /\ rq_pc' = [rq_pc EXCEPT ![q] = "wait"]
    /\ rq_kind' = [rq_kind EXCEPT ![q] = kind]
    /\ rq_raise_for_status' = [rq_raise_for_status EXCEPT ![q] = raise_for_status]
    /\ rq_waits' = [rq_waits EXCEPT ![q] = 0]
    /\ rq_gets' = [rq_gets EXCEPT ![q] = 0]
    /\ rq_result' = [rq_result EXCEPT ![q] = "none"]
    /\ UNCHANGED notRequestVars

\* await self._rate_limiter.wait()
RequestWait(q) ==
    /\ rq_pc[q] = "wait"
    /\ rq_waits' = [rq_waits EXCEPT ![q] = @ + 1]
    /\ rq_pc' = [rq_pc EXCEPT ![q] = "get"]
    /\ UNCHANGED <<rq_kind, rq_raise_for_status, rq_gets, rq_result, rq_calls>>
    /\ UNCHANGED notRequestVars

\* the try block: session.get, raise_for_status, reading the response
RequestGet(q, outcome) ==
    /\ rq_pc[q] = "get"
    /\ rq_gets' = [rq_gets EXCEPT ![q] = @ + 1]
    /\ LET raised == RaisedByGet(rq_kind[q], rq_raise_for_status[q], outcome)
       IN  /\ rq_result' = [rq_result EXCEPT ![q] = raised]
           /\ rq_pc' = [rq_pc EXCEPT ![q] = AfterGet(raised)]
    /\ UNCHANGED <<rq_kind, rq_raise_for_status, rq_waits, rq_calls>>
    /\ UNCHANGED notRequestVars

InitRequest ==
    /\ rq_pc = [q \in Requests |-> "idle"]
    /\ rq_kind = [q \in Requests |-> "text"]
    /\ rq_raise_for_status = [q \in Requests |-> TRUE]
    /\ rq_waits = [q \in Requests |-> 0]
    /\ rq_gets = [q \in Requests |-> 0]
    /\ rq_result = [q \in Requests |-> "none"]
    /\ rq_calls = 0

(* ------------------------------------------------------------------ *)
(* DuckDBClient.connect                                                *)
(* ------------------------------------------------------------------ *)

\* constructor arguments
RetriesArgs == -1..MaxRetries
RetryDelays == {1, 2}

\* what duckdb.connect can do: connect, raise IOException with
\* "Conflicting lock" in its message, raise another IOException, raise an
\* exception that is not an IOException
ConnectOutcomes == {"ok", "lock", "io_error", "other_error"}

MayRetryAnyIOError(outcome, attempt, retries) ==
    outcome \in {"lock", "io_error"} /\ attempt < retries

\* except duckdb.IOException: "Conflicting lock" in str(e) and attempt < self.retries
MayRetry(outcome, attempt, retries) ==
    outcome = "lock" /\ attempt < retries

\* while attempt <= self.retries; falling out of the loop returns None
LoopOrReturn(attempt, retries) == IF attempt <= retries THEN "try" ELSE "returned"

\* DuckDBClient(retries=..., retry_delay=...)
NewDuckDBClient(retries, retry_delay) ==
    /\ c_pc = "none"
    /\ c_pc' = "ready"
    /\ c_retries' = retries
    /\ c_retry_delay' = retry_delay
    /\ UNCHANGED <<c_conn, c_attempt, c_history, c_slept, c_calls>>
    /\ UNCHANGED notConnectVars

\* connect up to the first evaluation of the loop condition
Connect ==
    /\ c_pc \in {"ready", "returned", "raised"}
    /\ c_calls < MaxConnects
    /\ c_calls' = c_calls + 1
    /\ c_history' = << >>
    /\ c_slept' = << >>
    /\ c_attempt' = 0
    /\ c_pc' = IF c_conn THEN "returned" ELSE LoopOrReturn(0, c_retries)
    /\ UNCHANGED <<c_conn, c_retries, c_retry_delay>>
    /\ UNCHANGED notConnectVars

\* one pass through the try block and its except clause
ConnectAttempt(outcome) ==
    /\ c_pc = "try"
    /\ c_history' = Append(c_history, outcome)
    /\ c_conn' = (outcome = "ok")
    /\ c_pc' = IF outcome = "ok" THEN "returned"
               ELSE IF outcome = "other_error" THEN "raised"
               ELSE IF MayRetry(outcome, c_attempt, c_retries) THEN "sleep"
               ELSE "raised"
    /\ UNCHANGED <<c_retries, c_retry_delay, c_attempt, c_slept, c_calls>>
    /\ UNCHANGED notConnectVars

\* time.sleep(self.retry_delay); attempt += 1; back to the loop condition
ConnectSleep ==
    /\ c_pc = "sleep"
    /\ c_slept' = Append(c_slept, c_retry_delay)
    /\ c_attempt' = c_attempt + 1
    /\ c_pc' = LoopOrReturn(c_attempt + 1, c_retries)
    /\ UNCHANGED <<c_conn, c_retries, c_retry_delay, c_history, c_calls>>
    /\ UNCHANGED notConnectVars

\* close()
Close ==
    /\ c_pc \in {"ready", "returned", "raised"}
    /\ c_conn
    /\ c_conn' = FALSE
    /\ UNCHANGED <<c_pc, c_retries, c_retry_delay, c_attempt, c_history, c_slept, c_calls>>
    /\ UNCHANGED notConnectVars

InitConnect ==
    /\ c_pc = "none"
    /\ c_conn = FALSE
    /\ c_retries = 0
    /\ c_retry_delay = 1
    /\ c_attempt = 0
    /\ c_history = << >>
    /\ c_slept = << >>
    /\ c_calls = 0

(* ------------------------------------------------------------------ *)
(* grab_recent_filings: pagination                                     *)
(* ------------------------------------------------------------------ *)

\* if start >= 1000: return
OFFSET_CEILING == 1000

\* page sizes a caller passes (the default is 100)
PageLimits == {100, 300, 1000}

\* what can raise between the request and the filters: the feed request,
\* or one of the enrichment awaits
PageFailures == {"none", "request", "enrich"}

CeilDiv(a, b) == (a + b - 1) \div b

CeilingPassed(start) == start > OFFSET_CEILING

CeilingReached(start) == start >= OFFSET_CEILING

\* a caller awaits grab_recent_filings(filing_type, limit, stop_early=...)
GrabRecentFilings(limit, stop_early) ==
    /\ pg_pc \in {"idle", "returned", "raised"}
    /\ pg_calls < MaxGrabs
    /\ pg_calls' = pg_calls + 1
    /\ pg_pc' = "paging"
    /\ pg_limit' = limit
    /\ pg_stop_early' = stop_early
    /\ pg_start' = 0
    /\ pg_requested' = << >>
    /\ pg_empty_pages' = 0
    /\ UNCHANGED notPageVars

\* one level of grab_recent_filings, from its entry to its recursive call
GrabPage(filings, failure, keepsEarlierRows) ==
    /\ pg_pc = "paging"
    /\ IF CeilingReached(pg_start)
       THEN /\ pg_pc' = "returned"
            /\ UNCHANGED <<pg_start, pg_requested, pg_empty_pages, filed_8k_listing>>
       ELSE /\ pg_requested' = Append(pg_requested, pg_start)
            /\ IF failure = "request"
               THEN /\ pg_pc' = "raised"
                    /\ UNCHANGED <<pg_start, pg_empty_pages, filed_8k_listing>>
               ELSE LET unseen == FilterOutExistingPrimaryKeys(filed_8k_listing,
                                      [i \in 1..Len(filings) |-> filings[i].base_url])
                        new_filings == SelectSeq(filings, LAMBDA f : f.base_url \in unseen)
                        kept == FilteredNewFilings(new_filings)
                        res == InsertRecords(filed_8k_listing, kept)
                    IN  /\ pg_empty_pages' = IF new_filings = << >>
                                             THEN pg_empty_pages + 1
                                             ELSE pg_empty_pages
                        /\ IF failure = "enrich" /\ new_filings # << >>
                           THEN /\ pg_pc' = "raised"
                                /\ UNCHANGED <<pg_start, filed_8k_listing>>
                           ELSE IF kept = << >> /\ pg_stop_early
                           THEN /\ pg_pc' = "returned"
                                /\ UNCHANGED <<pg_start, filed_8k_listing>>
                           ELSE /\ filed_8k_listing' = IF res.raised /\ ~keepsEarlierRows
                                                       THEN filed_8k_listing
                                                       ELSE res.table
                                /\ pg_pc' = IF res.raised THEN "raised" ELSE "paging"
                                /\ pg_start' = IF res.raised THEN pg_start
                                               ELSE pg_start + pg_limit
    /\ UNCHANGED <<pg_limit, pg_stop_early, pg_calls>>
    /\ UNCHANGED <<f_calls, g_pc, g_new, g_ins, g_raised>>
    /\ UNCHANGED <<limiterVars, publishVars, extractVars, pipelineVars, exhibitVars, rerunVars, requestVars, connectVars, atomVars, batchVars, workflowVars, edgarVars, recursionVars, publish502Vars, tokenVars>>

InitPage ==
    /\ pg_pc = "idle"
    /\ pg_limit = 100
    /\ pg_stop_early = TRUE
    /\ pg_start = 0
    /\ pg_requested = << >>
    /\ pg_empty_pages = 0
    /\ pg_calls = 0

(* ------------------------------------------------------------------ *)
(* parse_atom_latest_filings_feed                                      *)
(* ------------------------------------------------------------------ *)

\* an <entry>: its <title> (absent, without "(cik)", with it), its <link>
\* (absent, without href, or the href), its <updated> (absent, a timestamp
\* without offset, one with offset) and whether it has a <summary>
AtomTitles == {"absent", "no_cik", "with_cik"}
AtomLinks == {"absent", "no_href"} \cup Urls
AtomUpdated == {"absent", "naive", "aware"}
AtomEntries == [title : AtomTitles, link : AtomLinks, updated : AtomUpdated, summary : BOOLEAN]

\* if not all([title, link, updated, summary]): continue
HasAllTags(e) ==
    e.title # "absent" /\ e.link # "absent" /\ e.updated # "absent" /\ e.summary

\* FilingRSSFeedEntry(...): cik and base_url are required str fields, None
\* (no "(...)" in the title, no href) fails validation, and the ts validator
\* raises for a timestamp without offset
ValidationFails(e) ==
    e.title = "no_cik" \/ e.link = "no_href" \/ e.updated = "naive"

\* an entry that has every required field
WellFormed(e) == HasAllTags(e) /\ ~ValidationFails(e)

\* the loop over the entries: the first record whose construction raises
\* ends the call
RECURSIVE ParseEntries(_, _, _)
ParseEntries(entries, i, parsed_data) ==
    IF i > Len(entries)
    THEN [result |-> parsed_data, raised |-> FALSE]
    ELSE IF ~HasAllTags(entries[i])
         THEN ParseEntries(entries, i + 1, parsed_data)
         ELSE IF ValidationFails(entries[i])
              THEN [result |-> << >>, raised |-> TRUE]
              ELSE ParseEntries(entries, i + 1, Append(parsed_data, entries[i].link))

parse_atom_latest_filings_feed ==
    /\ a_pc = "input"
    /\ a_pc' = "done"
    /\ \E res \in {ParseEntries(a_feed, 1, << >>)} :
          /\ a_result' = res.result
          /\ a_raised' = res.raised
    /\ UNCHANGED a_feed
    /\ UNCHANGED notAtomVars

InitAtom ==
    /\ a_feed = << >>
    /\ a_pc = "input"
    /\ a_result = << >>
    /\ a_raised = FALSE

(* ------------------------------------------------------------------ *)
(* FilingParser.parse and the insert loop, in batch order              *)
(* ------------------------------------------------------------------ *)

\* (cik, filing_date) pairs of listings; two listings can share one
CikDates == {"c1", "c2"}

\* the order in which the sections of one filing are appended
CodeOrder == <<"8.01", "9.01">>

\* unprocessed listings with their downloaded text
BatchFilings == [base_url : Urls, cik_date : CikDates, raw_8k_text : PrimaryTexts]

\* batches: lists of listings with distinct base_url
Batches ==
    {b \in SeqsUpTo(BatchFilings, MaxBatch) :
        \A i, j \in 1..Len(b) : i # j => b[i].base_url # b[j].base_url}

\* the Parsed8KText records of one filing
RECURSIVE ParseOne(_, _)
ParseOne(filing, i) ==
    IF i > Len(CodeOrder)
    THEN << >>
    ELSE LET text == SectionsOfText[filing.raw_8k_text][CodeOrder[i]]
         IN  (IF text = << >>
              THEN << >>
              ELSE <<[cik_date |-> filing.cik_date, item_number |-> CodeOrder[i],
                      base_url |-> filing.base_url, item_text |-> text]>>)
             \o ParseOne(filing, i + 1)

\* FilingParser.parse: the records of every filing, appended in batch order
RECURSIVE Parse(_, _)
Parse(filings, i) ==
    IF i > Len(filings) THEN << >> ELSE ParseOne(filings[i], 1) \o Parse(filings, i + 1)

\* the PRIMARY KEY of parsed_8k_text
Triple(t) == <<t.cik_date, t.item_number>>

\* the insert loop: one plain INSERT per record; the INSERT of a record
\* whose triple is stored raises, the except clause logs it and goes on
RECURSIVE InsertEach(_, _, _)
InsertEach(table, parsed_texts, i) ==
    IF i > Len(parsed_texts)
    THEN table
    ELSE IF \E row \in table : Triple(row) = Triple(parsed_texts[i])
         THEN InsertEach(table, parsed_texts, i + 1)
         ELSE InsertEach(table \cup {parsed_texts[i]}, parsed_texts, i + 1)

\* parse and the insert loop of parse_filings on one batch
ParseAndInsert(filings) ==
    /\ b_rounds < MaxRounds
    /\ b_rounds' = b_rounds + 1
    /\ b_batch' = filings
    /\ b_parsed' = Parse(filings, 1)
    /\ b_table' = InsertEach(b_table, Parse(filings, 1), 1)
    /\ UNCHANGED notBatchVars

InitBatch ==
    /\ b_batch = << >>
    /\ b_parsed = << >>
    /\ b_table = {}
    /\ b_rounds = 0

(* ------------------------------------------------------------------ *)
(* Agent workflow: fan-out stages                                      *)
(* ------------------------------------------------------------------ *)

\* an Edgar8kFilingData as the loader leaves it: whether item_type and
\* raw_text are set, whether raw_ex99_texts is
LoadedFilings == [raw_text : BOOLEAN, raw_ex99_texts : BOOLEAN]

\* tasks = [f(filing) for filing in state.filingEntries if <filter>]: the
\* indices of the entries that pass the filter, in list order
Tasks(eligible) ==
    SelectSeq([i \in 1..Len(eligible) |-> i], LAMBDA i : eligible[i])

\* for filing, result in zip(state.filingEntries, results): the k-th result
\* goes to the k-th entry of the list unless it is an exception
ZipResults(old, tasks, failed) ==
    [i \in 1..Len(old) |->
        IF i <= Len(tasks) /\ tasks[i] \notin failed THEN tasks[i] ELSE old[i]]

\* edgar_8k_loader
LoadFilings(entries) ==
    /\ w_pc = "edgar_8k_loader"
    /\ w_pc' = "parse_agent"
    /\ w_entries' = entries
    /\ w_parsed_8k' = [i \in 1..Len(entries) |-> 0]
    /\ w_parsed_ex99' = [i \in 1..Len(entries) |-> 0]
    /\ w_analysis' = [i \in 1..Len(entries) |-> 0]
    /\ UNCHANGED notWorkflowVars

\* Agent8kParser.__call__; failed are the entries whose task raises
Agent8kParser(failed) ==
    /\ w_pc = "parse_agent"
    /\ w_pc' = "edgar_ex99_parser"
    /\ w_parsed_8k' = ZipResults(w_parsed_8k,
                          Tasks([i \in 1..Len(w_entries) |-> w_entries[i].raw_text]), failed)
    /\ UNCHANGED <<w_entries, w_parsed_ex99, w_analysis>>
    /\ UNCHANGED notWorkflowVars

\* AgentEX99Parser.__call__
AgentEX99Parser(failed) ==
    /\ w_pc = "edgar_ex99_parser"
    /\ w_pc' = "analyze_agent"
    /\ w_parsed_ex99' = ZipResults(w_parsed_ex99,
                          Tasks([i \in 1..Len(w_entries) |-> w_entries[i].raw_ex99_texts]), failed)
    /\ UNCHANGED <<w_entries, w_parsed_8k, w_analysis>>
    /\ UNCHANGED notWorkflowVars

\* Agent8kAnalyzer.__call__: a task for each entry whose parsed_8k is set
Agent8kAnalyzer(failed) ==
    /\ w_pc = "analyze_agent"
    /\ w_pc' = "END"
    /\ w_analysis' = ZipResults(w_analysis,
                          Tasks([i \in 1..Len(w_entries) |-> w_parsed_8k[i] # 0]), failed)
    /\ UNCHANGED <<w_entries, w_parsed_8k, w_parsed_ex99>>
    /\ UNCHANGED notWorkflowVars

InitWorkflow ==
    /\ w_entries = << >>
    /\ w_pc = "edgar_8k_loader"
    /\ w_parsed_8k = << >>
    /\ w_parsed_ex99 = << >>
    /\ w_analysis = << >>

(* ------------------------------------------------------------------ *)
(* tools/edgar.py: RateLimiter without a lock (ticks of 0.1 s)         *)
(* ------------------------------------------------------------------ *)

EDGAR_SEC_RATE_LIMIT == 2
EDGAR_SEC_BURST_LIMIT == 10
EDGAR_SEC_BURST_WINDOW == 10

\* time.time() when the first caller arrives: last_request_time (0.0) lies
\* further back than the rate limit
EdgarStartTime == 10

\* [t for t in self.request_times if now - t < SEC_BURST_WINDOW]
EdgarPrune(rt, now) == SelectSeq(rt, LAMBDA t : now - t < EDGAR_SEC_BURST_WINDOW)

\* "Update tracking": both fields are set from a fresh time.time()
EdgarUpdateTracking(c, rt) ==
    /\ e_last_request_time' = e_clock
    /\ e_request_times' = Append(rt, e_clock)
    /\ e_recorded' = Append(e_recorded, e_clock)
    /\ e_pc' = [e_pc EXCEPT ![c] = "idle"]
    /\ e_wake' = [e_wake EXCEPT ![c] = 0]

\* "Check rate limit", with the `now` read at the entry of wait()
EdgarRateCheck(c, now, rt) ==
    LET elapsed == now - e_last_request_time IN
    IF elapsed < EDGAR_SEC_RATE_LIMIT
    THEN /\ e_pc' = [e_pc EXCEPT ![c] = "rateSleep"]
         /\ e_wake' = [e_wake EXCEPT ![c] = e_clock + (EDGAR_SEC_RATE_LIMIT - elapsed)]
         /\ e_request_times' = rt
         /\ UNCHANGED <<e_last_request_time, e_recorded>>
    ELSE EdgarUpdateTracking(c, rt)

\* wait() from its entry to its first await
EdgarWaitCall(c) ==
    /\ e_pc[c] = "idle"
    /\ e_now' = [e_now EXCEPT ![c] = e_clock]
    /\ LET rt == EdgarPrune(e_request_times, e_clock) IN
       IF Len(rt) >= EDGAR_SEC_BURST_LIMIT
       THEN IF rt[1] + EDGAR_SEC_BURST_WINDOW - e_clock > 0
            THEN /\ e_pc' = [e_pc EXCEPT ![c] = "burstSleep"]
                 /\ e_wake' = [e_wake EXCEPT ![c] = rt[1] + EDGAR_SEC_BURST_WINDOW]
                 /\ e_request_times' = rt
                 /\ UNCHANGED <<e_last_request_time, e_recorded>>
            ELSE EdgarRateCheck(c, e_clock, Tail(rt))
       ELSE EdgarRateCheck(c, e_clock, rt)
    /\ UNCHANGED e_clock
    /\ UNCHANGED notEdgarVars

\* return of the sleep of the burst check: drop the oldest timestamp of the
\* list as it is now, then the rate check
EdgarAfterBurstSleep(c) ==
    /\ e_pc[c] = "burstSleep"
    /\ e_clock >= e_wake[c]
    /\ EdgarRateCheck(c, e_now[c],
                      IF e_request_times = << >> THEN << >> ELSE Tail(e_request_times))
    /\ UNCHANGED <<e_clock, e_now>>
    /\ UNCHANGED notEdgarVars

\* return of the sleep of the rate check
EdgarAfterRateSleep(c) ==
    /\ e_pc[c] = "rateSleep"
    /\ e_clock >= e_wake[c]
    /\ EdgarUpdateTracking(c, e_request_times)
    /\ UNCHANGED <<e_clock, e_now>>
    /\ UNCHANGED notEdgarVars

EdgarTick ==
    /\ e_clock < MaxEdgarTime
    /\ e_clock' = e_clock + 1
    /\ UNCHANGED <<e_last_request_time, e_request_times, e_pc, e_now, e_wake, e_recorded>>
    /\ UNCHANGED notEdgarVars

InitEdgar ==
    /\ e_clock = EdgarStartTime
    /\ e_last_request_time = 0
    /\ e_request_times = << >>
    /\ e_pc = [c \in Callers |-> "idle"]
    /\ e_now = [c \in Callers |-> 0]
    /\ e_wake = [c \in Callers |-> 0]
    /\ e_recorded = << >>

(* ------------------------------------------------------------------ *)
(* parse_filings: the recursion                                        *)
(* ------------------------------------------------------------------ *)

\* get_unprocessed_filings()[:100]
BATCH_LIMIT == 100

\* a caller awaits parse_filings()
StartParseFilings ==
    /\ rc_pc = "idle"
    /\ g_pc["r1"] # "enrich"
    /\ rc_pc' = "running"
    /\ UNCHANGED rc_history
    /\ UNCHANGED notRecursionVars

\* one level of parse_filings, up to its recursive call; db_error: the
\* UPDATE of update_processed_filings raises, which the method prints
ParseFilingsLevel(db_error) ==
    /\ rc_pc = "running"
    /\ Len(rc_history) < MaxRecursion
    /\ LET filings == get_unprocessed_filings(filed_8k_listing)
       IN  /\ Cardinality(filings) <= BATCH_LIMIT
           /\ rc_history' = Append(rc_history, Cardinality(filings))
           /\ \E outcome \in [BaseUrls(filings) -> DownloadOutcomes] :
              \E stored \in StoredChoices(filings, outcome) :
              \E analysis \in [AnalyzedUrls(filings, outcome) -> AnalysisOutcomes] :
              \E published \in PublishedChoices(filings, outcome, analysis) :
              \E res \in {ParseRound(filed_8k_listing, analyzed_item801, pub_last,
                                      parsed_8k_text, outcome, stored, analysis, published)} :
                  /\ filed_8k_listing' =
                         IF db_error /\ filings # {} /\ res.p_last.raised = "none"
                         THEN update_url_8k(filed_8k_listing, stored, outcome)
                         ELSE res.filed_8k_listing
                  /\ analyzed_item801' = res.analyzed_item801
                  /\ pub_last' = res.pub_last
                  /\ parsed_8k_text' = res.parsed_8k_text
                  /\ p_last' = res.p_last
                  /\ rc_pc' = IF filings = {} THEN "returned"
                              ELSE IF res.p_last.raised # "none" THEN "raised"
                              ELSE "running"
    /\ UNCHANGED <<f_calls, g_pc, g_new, g_ins, g_raised, pub_count, p_rounds>>
    /\ UNCHANGED <<limiterVars, extractVars, exhibitVars, rerunVars, requestVars, connectVars, pageVars, atomVars, batchVars, workflowVars, edgarVars, publish502Vars, tokenVars>>

InitRecursion ==
    /\ rc_pc = "idle"
    /\ rc_history = << >>

(* ------------------------------------------------------------------ *)
(* publish_parsed_502                                                  *)
(* ------------------------------------------------------------------ *)

\* the two 5.02 sections of one (cik, filing_date) that ItemAnalyzer.analyze
\* publishes, each in its own thread (asyncio.to_thread) and connection
Writers == {"p1", "p2"}
RoleTables == {"appointment", "removal"}

\* the statement after the SELECT
AfterSelect(existing_cik) == IF existing_cik THEN "delete_appointment" ELSE "summary"

\* await asyncio.to_thread(insert, ...): connect, CREATE TABLE IF NOT EXISTS,
\* validation
Publish502(w, roles) ==
    /\ m_pc[w] = "idle"
    /\ m_pc' = [m_pc EXCEPT ![w] = "select"]
    /\ m_roles' = [m_roles EXCEPT ![w] = roles]
    /\ UNCHANGED <<m_summary, m_appointment, m_removal, m_existing_cik>>
    /\ UNCHANGED notPublish502Vars

\* SELECT cik FROM item502_summary WHERE cik = ? AND filing_date = ?
Select502(w) ==
    /\ m_pc[w] = "select"
    /\ m_existing_cik' = [m_existing_cik EXCEPT ![w] = (m_summary # << >>)]
    /\ m_pc' = [m_pc EXCEPT ![w] = AfterSelect(m_summary # << >>)]
    /\ UNCHANGED <<m_summary, m_appointment, m_removal, m_roles>>
    /\ UNCHANGED notPublish502Vars

\* DELETE FROM item502_appointment WHERE cik = ? AND filing_date = ?
DeleteAppointment502(w) ==
    /\ m_pc[w] = "delete_appointment"
    /\ m_appointment' = << >>
    /\ m_pc' = [m_pc EXCEPT ![w] = "delete_removal"]
    /\ UNCHANGED <<m_summary, m_removal, m_existing_cik, m_roles>>
    /\ UNCHANGED notPublish502Vars

\* DELETE FROM item502_removal WHERE cik = ? AND filing_date = ?
DeleteRemoval502(w) ==
    /\ m_pc[w] = "delete_removal"
    /\ m_removal' = << >>
    /\ m_pc' = [m_pc EXCEPT ![w] = "summary"]
    /\ UNCHANGED <<m_summary, m_appointment, m_existing_cik, m_roles>>
    /\ UNCHANGED notPublish502Vars

\* UPDATE item502_summary ... WHERE cik = ? AND filing_date = ? when the
\* SELECT found a row, otherwise append the summary row
Summary502(w) ==
    /\ m_pc[w] = "summary"
    /\ m_summary' = IF m_existing_cik[w]
                    THEN [i \in 1..Len(m_summary) |-> w]
                    ELSE Append(m_summary, w)
    /\ m_pc' = [m_pc EXCEPT ![w] = "appointment"]
    /\ UNCHANGED <<m_appointment, m_removal, m_existing_cik, m_roles>>
    /\ UNCHANGED notPublish502Vars

\* insert_rolechanges(item_summary.appointment, "item502_appointment")
Appointment502(w) ==
    /\ m_pc[w] = "appointment"
    /\ m_appointment' = IF "appointment" \in m_roles[w]
                        THEN Append(m_appointment, w)
                        ELSE m_appointment
    /\ m_pc' = [m_pc EXCEPT ![w] = "removal"]
    /\ UNCHANGED <<m_summary, m_removal, m_existing_cik, m_roles>>
    /\ UNCHANGED notPublish502Vars

\* insert_rolechanges(item_summary.removal, "item502_removal"); con.close()
Removal502(w) ==
    /\ m_pc[w] = "removal"
    /\ m_removal' = IF "removal" \in m_roles[w]
                    THEN Append(m_removal, w)
                    ELSE m_removal
    /\ m_pc' = [m_pc EXCEPT ![w] = "done"]
    /\ UNCHANGED <<m_summary, m_appointment, m_existing_cik, m_roles>>
    /\ UNCHANGED notPublish502Vars

InitPublish502 ==
    /\ m_summary = << >>
    /\ m_appointment = << >>
    /\ m_removal = << >>
    /\ m_pc = [w \in Writers |-> "idle"]
    /\ m_existing_cik = [w \in Writers |-> FALSE]
    /\ m_roles = [w \in Writers |-> {}]

(* ------------------------------------------------------------------ *)
(* openai_limiter                                                      *)
(* ------------------------------------------------------------------ *)

TOKENS_PER_MIN == 200000
\* the 60 seconds of a budget period, in units of 10 s
TOKEN_PERIOD == 6
\* tokens_needed of a call, at most TOKENS_PER_MIN
TokenRequests == {1, 100000, 200000}

\* now >= _reset_time: the budget starts again
ResetDue(t) == t >= reset_time
TokensAt(t) == IF ResetDue(t) THEN 0 ELSE current_tokens
ResetTimeAt(t) == IF ResetDue(t) THEN t + TOKEN_PERIOD ELSE reset_time

\* _current_tokens + tokens_needed > TOKENS_PER_MIN
OverBudgetNever(tokens, needed) == FALSE
OverBudget(tokens, needed) == tokens + needed > TOKENS_PER_MIN

\* a task calls _wait_for_token_budget and reaches `async with _token_lock`
WaitForTokenBudget(c, needed) ==
    /\ tb_pc[c] = "idle"
    /\ tb_calls < MaxTokenCalls
    /\ tb_calls' = tb_calls + 1
    /\ tb_pc' = [tb_pc EXCEPT ![c] = "queued"]
    /\ tb_needed' = [tb_needed EXCEPT ![c] = needed]
    /\ UNCHANGED <<current_tokens, reset_time, token_lock, token_clock, tb_wake, tb_slept>>
    /\ UNCHANGED notTokenVars

\* the lock is acquired and the body runs to its first await or to the end
TokenAcquire(c) ==
    /\ tb_pc[c] = "queued"
    /\ token_lock = {}
    /\ reset_time' = ResetTimeAt(token_clock)
    /\ IF OverBudget(TokensAt(token_clock), tb_needed[c])
       THEN /\ current_tokens' = TokensAt(token_clock)
            /\ token_lock' = {c}
            /\ tb_pc' = [tb_pc EXCEPT ![c] = "sleeping"]
            /\ tb_wake' = [tb_wake EXCEPT ![c] = ResetTimeAt(token_clock)]
       ELSE /\ current_tokens' = TokensAt(token_clock) + tb_needed[c]
            /\ token_lock' = {}
            /\ tb_pc' = [tb_pc EXCEPT ![c] = "idle"]
            /\ tb_wake' = tb_wake
    /\ UNCHANGED <<token_clock, tb_needed, tb_calls, tb_slept>>
    /\ UNCHANGED notTokenVars

\* asyncio.sleep(wait_time) is over: new budget period, grant, release
TokenAfterSleep(c) ==
    /\ tb_pc[c] = "sleeping"
    /\ token_clock >= tb_wake[c]
    /\ current_tokens' = 0 + tb_needed[c]
    /\ reset_time' = token_clock + TOKEN_PERIOD
    /\ token_lock' = token_lock \ {c}
    /\ tb_pc' = [tb_pc EXCEPT ![c] = "idle"]
    /\ tb_slept' = tb_slept + 1
    /\ UNCHANGED <<token_clock, tb_needed, tb_wake, tb_calls>>
    /\ UNCHANGED notTokenVars

\* time.time() advances
TokenTick ==
    /\ token_clock < MaxTokenTime
    /\ token_clock' = token_clock + 1
    /\ UNCHANGED <<current_tokens, reset_time, token_lock, tb_pc, tb_needed, tb_wake, tb_calls, tb_slept>>
    /\ UNCHANGED notTokenVars

\* module import: _current_tokens = 0, _reset_time = time.time() + 60
InitToken ==
    /\ current_tokens = 0
    /\ token_clock = 0
    /\ reset_time = 0 + TOKEN_PERIOD
    /\ token_lock = {}
    /\ tb_pc = [c \in Callers |-> "idle"]
    /\ tb_needed = [c \in Callers |-> 1]
    /\ tb_wake = [c \in Callers |-> 0]
    /\ tb_calls = 0
    /\ tb_slept = 0

(* ------------------------------------------------------------------ *)
(* Specifications                                                      *)
(* ------------------------------------------------------------------ *)

Init == InitLimiter /\ InitStore /\ InitPublish /\ InitExtract /\ InitPipeline /\ InitExhibit /\ InitRerun /\ InitRequest /\ InitConnect /\ InitPage /\ InitAtom /\ InitBatch /\ InitWorkflow /\ InitEdgar /\ InitRecursion /\ InitPublish502 /\ InitToken

\* the extractor is given any document of the bounded set
InitAnyDoc ==
    /\ InitLimiter /\ InitStore /\ InitPublish /\ InitPipeline /\ InitExhibit /\ InitRerun /\ InitRequest /\ InitConnect /\ InitPage /\ InitAtom /\ InitBatch /\ InitWorkflow /\ InitEdgar /\ InitRecursion /\ InitPublish502 /\ InitToken
    /\ doc \in Docs
    /\ sections = NoSections
    /\ x_pc = "input"

WaitStep ==
    \E c \in Callers :
        \/ WaitCall(c)
        \/ WaitAcquire(c)
        \/ WaitAfterBurstSleep(c)
        \/ WaitAfterRateSleep(c)

NextLimiter == WaitStep \/ Tick(MaxTime)

\* one limiter, constructed once, any number of wait() calls
SpecLimiter == Init /\ [][NextLimiter]_vars

NextHandles == WaitStep \/ Construct \/ TickAsleep(MaxTimeHandles)

\* RateLimiter() may be called again between and during wait() calls; the
\* callers issue their requests back to back, so time passes only in sleeps
SpecHandles == Init /\ [][NextHandles]_vars

NextFilter ==
    \/ \E keys \in SeqsUpTo(Urls, MaxKeys) : FilterCall(keys)
    \/ \E filings \in SeqsUpTo(FeedEntries, MaxFeed) : GrabFetch("r1", filings)
    \/ GrabInsert("r1")

\* direct filter calls on a listing table that one grab_recent_filings run
\* after the other fills
SpecFilter == Init /\ [][NextFilter]_vars

NextStore ==
    \/ \E r \in Runs, filings \in SeqsUpTo(FeedEntries, MaxFeed) : GrabFetch(r, filings)
    \/ \E r \in Runs : GrabInsert(r)

\* the listing table under overlapping grab_recent_filings runs
SpecStore == Init /\ [][NextStore]_vars

NextPublish == \E k \in Keys801, v \in Contents801 : publish_parsed_801(k, v)

\* repeated writes of analysis records
SpecPublish == Init /\ [][NextPublish]_vars

NextExtract == Extract

\* the section extractor applied to every document of the bounded set
SpecExtract == InitAnyDoc /\ [][NextExtract]_vars

NextPipeline ==
    \/ \E filings \in SeqsUpTo(FeedEntries, MaxFeed) : GrabFetch("r1", filings)
    \/ GrabInsert("r1")
    \/ ParseFilings

\* the pipeline of one process: grab_recent_filings, then parse_filings
SpecPipeline == Init /\ [][NextPipeline]_vars

NextExhibit ==
    \/ NewExhibitAnalyzer
    \/ \E r \in Runs, parsed_texts \in SeqsUpTo(SectionsWithExhibits, MaxSections) :
          AnalyzeClaim(r, parsed_texts)
    \/ \E r \in Runs, failed \in SUBSET HtmUrls, unanalyzed \in SUBSET HtmUrls :
          AnalyzeInsert(r, failed, unanalyzed)

\* calls of ExhibitAnalyzer.analyze, two of which may overlap
SpecExhibit == Init /\ [][NextExhibit]_vars

\* the first run starts on an empty listing table or on one that holds a
\* processed listing, with any feed page and any answers
InitAnyEnvironment ==
    /\ InitLimiter /\ InitPublish /\ InitExtract /\ InitPipeline /\ InitExhibit /\ InitRequest /\ InitConnect /\ InitPage /\ InitAtom /\ InitBatch /\ InitWorkflow /\ InitEdgar /\ InitRecursion /\ InitPublish502 /\ InitToken
    /\ r_env \in Environments
    /\ r_pre \in {{}, {"u1"}}
    /\ filed_8k_listing = {ProcessedRow(u) : u \in r_pre}
    /\ f_calls = << >>
    /\ g_pc = [r \in Runs |-> "idle"]
    /\ g_new = [r \in Runs |-> << >>]
    /\ g_ins = [r \in Runs |-> << >>]
    /\ g_raised = [r \in Runs |-> FALSE]
    /\ r_run = 1
    /\ r_pc = "grab"
    /\ r_error = [n \in {1, 2} |-> FALSE]
    /\ r_snap = [listing |-> {}, sections |-> {}, exhibits |-> {}]

NextRerun == RunGrab \/ RunParse

\* two runs of the pipeline
SpecRerun == InitAnyEnvironment /\ [][NextRerun]_vars

NextPersist ==
    \/ \E filings \in SeqsUpTo(FeedEntries, MaxFeed) : GrabFetch("r1", filings)
    \/ GrabInsert("r1")
    \/ \E outcome \in [Urls -> [kind : {"ok"}, text : PrimaryTexts]] :
       \E failed \in SUBSET ParsedTexts(get_unprocessed_filings(filed_8k_listing), outcome) :
          PersistSections(outcome, failed)

\* the insert loop and update_processed_filings of parse_filings, on the
\* sections of the unprocessed listings
SpecPersist == Init /\ [][NextPersist]_vars

NextRequest ==
    \/ \E q \in Requests, kind \in RequestKinds, raise_for_status \in BOOLEAN :
          MakeRequest(q, kind, raise_for_status)
    \/ \E q \in Requests : RequestWait(q)
    \/ \E q \in Requests, outcome \in GetOutcomes : RequestGet(q, outcome)

\* coroutines calling _make_request and _make_json_request
SpecRequest == Init /\ [][NextRequest]_vars

NextConnect ==
    \/ \E retries \in RetriesArgs, retry_delay \in RetryDelays :
          NewDuckDBClient(retries, retry_delay)
    \/ Connect
    \/ \E outcome \in ConnectOutcomes : ConnectAttempt(outcome)
    \/ ConnectSleep
    \/ Close

\* a DuckDBClient that is connected and closed
SpecConnect == Init /\ [][NextConnect]_vars

NextPage ==
    \/ \E limit \in PageLimits, stop_early \in BOOLEAN : GrabRecentFilings(limit, stop_early)
    \/ \E filings \in SeqsUpTo(FeedEntries, MaxFeed), failure \in PageFailures,
          keepsEarlierRows \in BOOLEAN :
          GrabPage(filings, failure, keepsEarlierRows)

\* grab_recent_filings paging through the feed
SpecPage == Init /\ [][NextPage]_vars

\* the parser is given any feed of the bounded set
InitAnyFeed ==
    /\ InitLimiter /\ InitStore /\ InitPublish /\ InitExtract /\ InitPipeline /\ InitExhibit /\ InitRerun /\ InitRequest /\ InitConnect /\ InitPage /\ InitBatch /\ InitWorkflow /\ InitEdgar /\ InitRecursion /\ InitPublish502 /\ InitToken
    /\ a_feed \in SeqsUpTo(AtomEntries, MaxEntries)
    /\ a_pc = "input"
    /\ a_result = << >>
    /\ a_raised = FALSE

NextAtom == parse_atom_latest_filings_feed

SpecAtom == InitAnyFeed /\ [][NextAtom]_vars

NextBatch == \E filings \in Batches : ParseAndInsert(filings)

\* parse and the insert loop on ordered batches
SpecBatch == Init /\ [][NextBatch]_vars

NextWorkflow ==
    \/ \E entries \in SeqsUpTo(LoadedFilings, MaxFilings) : LoadFilings(entries)
    \/ \E failed \in SUBSET (1..Len(w_entries)) : Agent8kParser(failed)
    \/ \E failed \in SUBSET (1..Len(w_entries)) : AgentEX99Parser(failed)
    \/ \E failed \in SUBSET (1..Len(w_entries)) : Agent8kAnalyzer(failed)

\* run_workflow: loader, parse_agent, edgar_ex99_parser, analyze_agent
SpecWorkflow == Init /\ [][NextWorkflow]_vars

NextEdgar ==
    \/ \E c \in Callers : EdgarWaitCall(c)
    \/ \E c \in Callers : EdgarAfterBurstSleep(c)
    \/ \E c \in Callers : EdgarAfterRateSleep(c)
    \/ EdgarTick

\* concurrent wait() calls on the limiter of tools/edgar.py
SpecEdgar == Init /\ [][NextEdgar]_vars

NextWaits ==
    \/ \E c \in Callers : WaitCallOfMany(c)
    \/ \E c \in Callers : WaitAcquire(c)
    \/ \E c \in Callers : WaitAfterBurstSleep(c)
    \/ \E c \in Callers : WaitAfterRateSleep(c)
    \/ TickWhileAsleep
    \/ Construct

\* a finite number of wait() calls by concurrent callers; the event loop
\* resumes every task that is ready (the next waiter of a released lock, a
\* task whose sleep is over) and time goes on
SpecWaits ==
    /\ Init
    /\ [][NextWaits]_vars
    /\ WF_vars(TickWhileAsleep)
    /\ \A c \in Callers :
          /\ WF_vars(WaitAcquire(c))
          /\ WF_vars(WaitAfterBurstSleep(c))
          /\ WF_vars(WaitAfterRateSleep(c))

NextRecursion ==
    \/ \E filings \in SeqsUpTo(FeedEntries, MaxFeed) : rc_pc = "idle" /\ GrabFetch("r1", filings)
    \/ GrabInsert("r1")
    \/ StartParseFilings
    \/ \E db_error \in BOOLEAN : ParseFilingsLevel(db_error)

\* grab_recent_filings, then one call of parse_filings and its recursion
SpecRecursion == Init /\ [][NextRecursion]_vars

NextPublish502 ==
    \/ \E w \in Writers, roles \in SUBSET RoleTables : Publish502(w, roles)
    \/ \E w \in Writers : Select502(w)
    \/ \E w \in Writers : DeleteAppointment502(w)
    \/ \E w \in Writers : DeleteRemoval502(w)
    \/ \E w \in Writers : Summary502(w)
    \/ \E w \in Writers : Appointment502(w)
    \/ \E w \in Writers : Removal502(w)

\* two publish_parsed_502 calls for one (cik, filing_date), statement by
\* statement
SpecPublish502 == Init /\ [][NextPublish502]_vars

NextToken ==
    \/ \E c \in Callers, needed \in TokenRequests : WaitForTokenBudget(c, needed)
    \/ \E c \in Callers : TokenAcquire(c)
    \/ \E c \in Callers : TokenAfterSleep(c)
    \/ TokenTick

\* concurrent _wait_for_token_budget calls
SpecToken == Init /\ [][NextToken]_vars

(* ------------------------------------------------------------------ *)
(* Properties of the rate limiter                                      *)
(* ------------------------------------------------------------------ *)

\* C1: the request timestamps recorded by wait() are, in order, at least
\* SEC_RATE_LIMIT apart, so the N-th is at least (N-1) * SEC_RATE_LIMIT
\* after the first.
RateSpacing ==
    /\ \A i \in 1..(Len(recorded) - 1) :
          recorded[i+1] - recorded[i] >= SEC_RATE_LIMIT
    /\ Len(recorded) >= 1 =>
          recorded[Len(recorded)] - recorded[1] >= (Len(recorded) - 1) * SEC_RATE_LIMIT

\* a third request was recorded after a rate-check sleep of a queued caller
RateSpacingWitness ==
    /\ Len(recorded) >= 3
    /\ recorded[2] - recorded[1] = SEC_RATE_LIMIT
    /\ \E c \in Callers : pc[c] = "acquiring"

\* C2: any SEC_BURST_LIMIT+1 consecutive recorded timestamps span at least
\* SEC_BURST_WINDOW.
BurstSpacing ==
    \A i \in 1..(Len(recorded) - SEC_BURST_LIMIT) :
        recorded[i + SEC_BURST_LIMIT] - recorded[i] >= SEC_BURST_WINDOW

\* a request beyond the burst limit was recorded right when the window ended
BurstSpacingWitness ==
    /\ Len(recorded) = SEC_BURST_LIMIT + 1
    /\ recorded[SEC_BURST_LIMIT + 1] - recorded[1] = SEC_BURST_WINDOW

\* C3: at most one caller is between its burst check and its timestamp
\* append (asleep inside the critical section), and it holds the lock.
OneCallerInCriticalSection ==
    /\ Cardinality({c \in Callers : pc[c] \in {"burstSleep", "rateSleep"}}) <= 1
    /\ \A c \in Callers :
          pc[c] \in {"burstSleep", "rateSleep"} => my_lock[c] \in held

\* one caller sleeps in the burst check while another is queued on the lock
OneCallerInCriticalSectionWitness ==
    \E c, d \in Callers :
        /\ pc[c] = "burstSleep"
        /\ pc[d] = "acquiring"

\* C4: the limiter state is shared by every handle: whatever RateLimiter()
\* calls happen in between, each recorded request is spaced from every
\* earlier one, and last_request_time is the last recorded timestamp.
HandlesShareState ==
    /\ \A i, j \in 1..Len(recorded) :
          i < j => recorded[j] - recorded[i] >= (j - i) * SEC_RATE_LIMIT
    /\ (Len(recorded) > 0 /\ \A c \in Callers : pc[c] = "idle") =>
          last_request_time = recorded[Len(recorded)]


(* ------------------------------------------------------------------ *)
(* Properties of the store                                             *)
(* ------------------------------------------------------------------ *)

InsertSkipsStoredEntries ==
    \A r \in Runs :
        g_pc[r] = "done" =>
            /\ ~g_raised[r]
            /\ \A i \in 1..Len(g_ins[r]) : g_ins[r][i] \in StoredKeys(filed_8k_listing)

\* C7: after any number of writes of records with one key, the table holds
\* exactly one row for the key, with the content written last.
PublishIsIdempotentUpsert ==
    \A k \in Keys801 :
        pub_last[k] # "none" =>
            RowsOfKey(analyzed_item801, k) = <<[key |-> k, content |-> pub_last[k]]>>


(* ------------------------------------------------------------------ *)
(* Properties of the section extractor                                 *)
(* ------------------------------------------------------------------ *)

\* the positions of the document's words at which a section starts: a
\* marker word followed by a code
SectionStarts(tokens) ==
    {i \in 1..(Len(tokens) - 1) : tokens[i] \in MarkerWords /\ tokens[i+1] \in Codes}

\* the document consists of sections only, each a marker word, a code and a
\* body of one or more other words
MadeOfSections(tokens) ==
    /\ Len(tokens) > 0
    /\ \A i \in 1..Len(tokens) :
          \/ i \in SectionStarts(tokens)
          \/ i - 1 \in SectionStarts(tokens) /\ i < Len(tokens) /\ tokens[i+1] \in BodyWords
          \/ tokens[i] \in BodyWords /\ i > 2

\* the section that starts at word i, from its marker to the word before the
\* next marker or to the end of the text, as normalised text
SectionSpan(tokens, i) ==
    LET later == {j \in SectionStarts(tokens) : j > i}
        last == IF later = {} THEN Len(tokens) ELSE SetMin(later) - 1
    IN  NormalizeItemCasing(JoinWords(SubSeq(tokens, i, last), <<" ">>))

StartsOfCode(tokens, c) == {i \in SectionStarts(tokens) : tokens[i+1] = c}

\* C8: for a document made of k >= 1 sections with pairwise distinct codes
\* the extractor returns exactly those k codes, each with the span from its
\* marker to the next marker, or to the end of the text for the last one.
ExtractReturnsEverySection ==
    (/\ x_pc = "extracted"
     /\ MadeOfSections(doc.tokens)
     /\ \A c \in Codes : Cardinality(StartsOfCode(doc.tokens, c)) <= 1)
    => \A c \in Codes :
          sections[c] = IF StartsOfCode(doc.tokens, c) = {}
                        THEN << >>
                        ELSE SectionSpan(doc.tokens, SetMin(StartsOfCode(doc.tokens, c)))

\* C9: when a code heads more than one section of a document made of
\* sections, the text returned for it is that of its last occurrence.
ExtractLastOccurrenceWins ==
    (/\ x_pc = "extracted"
     /\ MadeOfSections(doc.tokens))
    => \A c \in Codes :
          Cardinality(StartsOfCode(doc.tokens, c)) > 1 =>
              sections[c] = SectionSpan(doc.tokens, SetMax(StartsOfCode(doc.tokens, c)))

(* ------------------------------------------------------------------ *)
(* Properties of parse_filings                                         *)
(* ------------------------------------------------------------------ *)

\* C10: a listing for which the extractor returned the empty map in a round
\* of parse_filings is marked processed by that round and has no row in
\* parsed_8k_text, whatever the other listings of the batch hold.
NoSectionsIsTerminal ==
    \A u \in p_last.empty :
        /\ \A row \in filed_8k_listing : row.base_url = u => row.processed
        /\ ~\E t \in parsed_8k_text : t.base_url = u

(* ------------------------------------------------------------------ *)
(* Properties of the exhibit analyzer                                  *)
(* ------------------------------------------------------------------ *)

OnlyAllowedListingsStored ==
    \A row \in filed_8k_listing : row.item_list \subseteq ALLOWED_8K_ITEMS

\* C13: when the resolution of a listing fails in a round of parse_filings,
\* the round does not end in that failure and the primary text of every
\* other listing that was answered is stored.
ResolutionFailureIsIsolated ==
    p_last.unresolved # {} =>
        /\ p_last.raised # "download"
        /\ \A row \in filed_8k_listing :
               row.base_url \in p_last.fetched => row.raw_8k_text # << >>

\* C14: a listing whose resolution or primary-document download failed in a
\* round of parse_filings is not marked processed by that round.
FailedDownloadStaysUnprocessed ==
    \A row \in filed_8k_listing :
        row.base_url \in p_last.unresolved \cup p_last.text_failed => ~row.processed

(* ------------------------------------------------------------------ *)
(* Properties of the whole pipeline                                    *)
(* ------------------------------------------------------------------ *)

\* C15: the first run inserts only listings of the feed that were not
\* stored; a second run on the same feed and the same answers ends without
\* an exception and adds no row to the listing, section and exhibit tables.
RerunInsertsNothing ==
    /\ StoredKeys(filed_8k_listing) \subseteq
           r_pre \cup {r_env.feed[i].base_url : i \in 1..Len(r_env.feed)}
    /\ r_pc = "ended" => ~r_error[2] /\ TableKeys = r_snap

AnalysisFailureIsPerItem ==
    p_last.analysis_failed # {} =>
        /\ p_last.raised # "analysis"
        /\ p_last.sections \subseteq SectionKeys(parsed_8k_text)

\* C18: a call of _make_request or _make_json_request has awaited
\* RateLimiter.wait exactly once when it issues its GET and when it ends,
\* it issues exactly one GET, and a call whose GET failed ends by raising
\* the error of that GET, without a second GET.
RequestWaitsOnceBeforeGet ==
    \A q \in Requests :
        /\ rq_pc[q] = "get" => rq_waits[q] = 1 /\ rq_gets[q] = 0
        /\ rq_gets[q] > 0 => rq_waits[q] = 1
        /\ rq_pc[q] \in {"returned", "raised"} => rq_waits[q] = 1 /\ rq_gets[q] = 1
        /\ rq_pc[q] = "raised" <=> rq_result[q] # "none"

\* a call whose GET failed has ended
RequestWaitsOnceBeforeGetWitness ==
    \E q \in Requests :
        /\ rq_pc[q] = "raised"
        /\ rq_result[q] = "ClientError"
        /\ rq_gets[q] = 1
        /\ rq_waits[q] = 1

\* C19: connect calls duckdb.connect at most retries+1 times; every attempt
\* but the last failed on the lock and was followed by one sleep of
\* retry_delay; a connect that raised did so on its first error other than
\* the lock or on the lock at attempt retries+1; the loop counter never
\* passes retries while the loop runs, so connect ends.
ConnectRetriesOnlyOnLock ==
    /\ Len(c_history) <= (IF c_retries >= 0 THEN c_retries + 1 ELSE 0)
    /\ \A i \in 1..Len(c_history) - 1 : c_history[i] = "lock"
    /\ \A i \in 1..Len(c_slept) : c_slept[i] = c_retry_delay
    /\ c_pc = "try" => Len(c_slept) = Len(c_history) /\ c_attempt <= c_retries
    /\ c_pc = "sleep" => Len(c_slept) = Len(c_history) - 1
    /\ c_pc \in {"returned", "raised"} /\ c_history # << >> =>
           Len(c_slept) = Len(c_history) - 1
    /\ c_pc = "raised" =>
           /\ c_history # << >>
           /\ c_history[Len(c_history)] # "ok"
           /\ c_history[Len(c_history)] = "lock" => Len(c_history) = c_retries + 1
    /\ c_attempt = Len(c_slept)

\* connect gave up on the lock after retrying
ConnectRetriesOnlyOnLockWitness ==
    /\ c_pc = "raised"
    /\ c_retries = MaxRetries
    /\ Len(c_history) = MaxRetries + 1
    /\ c_history[Len(c_history)] = "lock"
    /\ Len(c_slept) = MaxRetries

\* C20: the k-th feed request of a grab_recent_filings call is at offset
\* (k-1)*limit, below 1000; a call makes at most ceil(1000/limit) requests;
\* with stop_early a page that lists no new entry ends the call, so at most
\* one such page is requested.
PaginationIsBounded ==
    /\ \A i \in 1..Len(pg_requested) :
           pg_requested[i] = (i - 1) * pg_limit /\ pg_requested[i] < OFFSET_CEILING
    /\ Len(pg_requested) <= CeilDiv(OFFSET_CEILING, pg_limit)
    /\ pg_pc = "paging" => pg_start = Len(pg_requested) * pg_limit
    /\ pg_stop_early /\ pg_empty_pages > 0 => pg_empty_pages = 1 /\ pg_pc = "returned"

\* a call without stop_early has run into the offset ceiling with a page
\* size that does not divide it
PaginationIsBoundedWitness ==
    /\ pg_pc = "returned"
    /\ ~pg_stop_early
    /\ pg_limit = 300
    /\ Len(pg_requested) = CeilDiv(OFFSET_CEILING, pg_limit)
    /\ pg_empty_pages > 0

\* C21: parse_atom_latest_filings_feed does not raise and returns, in feed
\* order, one listing per entry that has every required field.
MalformedEntriesAreSkipped ==
    a_pc = "done" =>
        /\ ~a_raised
        /\ a_result = [i \in 1..Len(SelectSeq(a_feed, WellFormed)) |->
                          SelectSeq(a_feed, WellFormed)[i].link]

\* C22: after a batch handled on an empty parsed_8k_text, each triple of the
\* batch has exactly one row, and the row carries the content of the last
\* section of the batch with that triple.
SameTripleLastWins ==
    b_rounds = 1 =>
        \A i \in 1..Len(b_parsed) :
            (\A j \in (i + 1)..Len(b_parsed) : Triple(b_parsed[j]) # Triple(b_parsed[i])) =>
                /\ Cardinality({row \in b_table : Triple(row) = Triple(b_parsed[i])}) = 1
                /\ b_parsed[i] \in b_table

\* C23: the listing table never holds two rows with one base_url, and a
\* round of parse_filings (its update_url_8k and update_processed_filings
\* calls) keeps the set of stored base_urls, changes no column other than
\* raw_8k_text and processed, and leaves the rows outside its batch as they
\* were.
ListingUpdatesAreInPlace ==
    /\ [](\A r1, r2 \in filed_8k_listing : r1.base_url = r2.base_url => r1 = r2)
    /\ [][p_rounds' # p_rounds =>
            /\ StoredKeys(filed_8k_listing') = StoredKeys(filed_8k_listing)
            /\ \A row \in filed_8k_listing :
                  \E new \in filed_8k_listing' :
                      /\ new.base_url = row.base_url
                      /\ new.item_list = row.item_list
                      /\ new.market_cap = row.market_cap
                      /\ row.base_url \notin p_last'.batch => new = row]_vars

\* a second round has updated the row of its listing next to the row a
\* first round had finished
ListingUpdatesAreInPlaceWitness ==
    /\ p_rounds = 2
    /\ p_last.batch = {"u2"}
    /\ \E r1, r2 \in filed_8k_listing :
          /\ r1.base_url = "u1" /\ r1.processed
          /\ r2.base_url = "u2" /\ r2.processed /\ r2.raw_8k_text # << >>

\* C24: whatever entries a stage skips and whatever tasks fail, a result
\* written to an entry was computed from that entry.
ResultsPairedWithTheirEntry ==
    \A i \in 1..Len(w_entries) :
        /\ w_parsed_8k[i] \in {0, i}
        /\ w_parsed_ex99[i] \in {0, i}
        /\ w_analysis[i] \in {0, i}

\* C25: the timestamps the limiter of tools/edgar.py records are, in order,
\* at least its SEC_RATE_LIMIT apart, and no more than its SEC_BURST_LIMIT
\* of them lie within one SEC_BURST_WINDOW.
EdgarLimiterKeepsLimits ==
    /\ \A i \in 1..(Len(e_recorded) - 1) :
          e_recorded[i+1] - e_recorded[i] >= EDGAR_SEC_RATE_LIMIT
    /\ \A i \in 1..(Len(e_recorded) - EDGAR_SEC_BURST_LIMIT) :
          e_recorded[i + EDGAR_SEC_BURST_LIMIT] - e_recorded[i] >= EDGAR_SEC_BURST_WINDOW

\* C26: a caller that is inside wait() (queued on the lock or asleep in the
\* critical section) eventually returns, and then the lock is free again.
EveryWaitReturns ==
    \A c \in Callers : (pc[c] # "idle") ~> (pc[c] = "idle" /\ my_lock[c] \notin held)

\* all calls of a run in which a caller had to sleep in the burst check
\* have returned
EveryWaitReturnsWitness ==
    /\ Len(recorded) = MaxWaits
    /\ \A c \in Callers : pc[c] = "idle"
    /\ held = {}
    /\ waiters = << >>
    /\ recorded[Len(recorded)] - recorded[1] >= SEC_BURST_WINDOW

\* C30: request_times never holds more than SEC_BURST_LIMIT timestamps, it
\* is in non-decreasing order, and once a wait() has completed
\* last_request_time is its last element.
RequestTimesWellFormed ==
    /\ Len(request_times) <= SEC_BURST_LIMIT
    /\ \A i \in 1..(Len(request_times) - 1) : request_times[i] <= request_times[i+1]
    /\ recorded # << >> =>
          /\ request_times # << >>
          /\ last_request_time = request_times[Len(request_times)]

\* a wait() that slept in the burst check has completed and left a full list
RequestTimesWellFormedWitness ==
    /\ Len(request_times) = SEC_BURST_LIMIT
    /\ Len(recorded) > SEC_BURST_LIMIT
    /\ \A c \in Callers : pc[c] = "idle"

\* C27: from one round of a parse_filings call to the next the number of
\* unprocessed listings strictly decreases, and a call that has returned
\* has left no listing unprocessed.
UnprocessedStrictlyDecreases ==
    /\ \A i \in 1..(Len(rc_history) - 1) : rc_history[i+1] < rc_history[i]
    /\ rc_pc = "returned" => get_unprocessed_filings(filed_8k_listing) = {}

\* C28: when both writes of one (cik, filing_date) are done, item502_summary
\* holds one row for the pair and the appointment and removal rows are
\* those of one and the same write.
OneSummaryPerFiling ==
    (\A w \in Writers : m_pc[w] = "done") =>
        /\ Len(m_summary) = 1
        /\ \E w \in Writers :
              /\ m_appointment = (IF "appointment" \in m_roles[w] THEN <<w>> ELSE << >>)
              /\ m_removal = (IF "removal" \in m_roles[w] THEN <<w>> ELSE << >>)

\* C29: with every request at most TOKENS_PER_MIN, the tokens granted in
\* the current budget period (_current_tokens) never exceed TOKENS_PER_MIN,
\* and at most one caller is inside the lock.
TokenBudgetRespected ==
    /\ current_tokens <= TOKENS_PER_MIN
    /\ Cardinality(token_lock) <= 1
    /\ \A c \in Callers : tb_pc[c] = "sleeping" => token_lock = {c}

\* a caller has slept for a new period and the budget is exhausted again
\* while another caller waits for the lock or sleeps
TokenBudgetRespectedWitness ==
    /\ tb_slept >= 1
    /\ current_tokens = TOKENS_PER_MIN
    /\ \E c \in Callers : tb_pc[c] # "idle"

====
